---- MODULE Spec2Model ----
(***************************************************************************)
(* The registry of sdk/python/feast/registry.py as a state machine: one    *)
(* Registry instance (its cached RegistryProto, the cache's creation time  *)
(* and TTL), the RegistryStore behind it, and a clock.  One action per     *)
(* public method; a method's refresh guard, its mutation and its commit    *)
(* are one step, as they are for a single synchronous caller.              *)
(***************************************************************************)
EXTENDS Integers, Sequences, FiniteSets, TLC

VARIABLES
    cached_registry_proto,          \* Registry.cached_registry_proto (None or a RegistryProto)
    cached_registry_proto_created,  \* Registry.cached_registry_proto_created (NoTime or a clock value)
    cached_registry_proto_ttl,      \* Registry.cached_registry_proto_ttl, in seconds
    store,                          \* what the RegistryStore holds (None: nothing persisted yet)
    now,                            \* the clock read by datetime.now()
    last,                           \* the call made last and what it did
    nReads,                         \* observer: cached reads made so far
    nLoads,                         \* observer: RegistryStore loads made so far
    firstLoad,                      \* observer: clock value of the first load
    refresh_lock,                   \* Registry._refresh_lock: 0 when free, else the thread holding it
    threads,                        \* each thread's position in _get_registry_proto and what it got
    reloaded_by,                    \* observer: the thread whose load completed last (0: none yet)
    current_registry,               \* diff_between's argument current_registry
    new_registry,                   \* diff_between's argument new_registry
    diff,                           \* the RegistryDiff that diff_between builds and returns
    registry_store,                 \* Registry._registry_store: the backend store or a NoopRegistryStore
    acting,                         \* SpecClone: the registry whose fields the variables above hold
    other                           \* SpecClone: the fields of the registry that is not acting

vars == <<cached_registry_proto, cached_registry_proto_created,
          cached_registry_proto_ttl, store, now, last, nReads, nLoads, firstLoad,
          refresh_lock, threads, reloaded_by,
          current_registry, new_registry, diff,
          registry_store, acting, other>>

---------------------------------------------------------------------------
(* Bounds of the model. *)

\* Entries one RegistryProto may hold in all its collections together.
MaxEntries == 2
\* The clock stops at MaxTime.
MaxTime == 2
\* The non-zero cache TTL that is configured, in clock ticks.
CacheTtl == 1
\* Materialization intervals one feature view may accumulate.
MaxIntervals == 1
\* Cached reads that SpecCache makes and its observers count.
MaxReads == 3
\* Threads that call into one Registry in SpecThreads.
MaxThreads == 2
\* Materialization intervals one feature view may accumulate in
\* SpecMaterialization.
MaxMaterializations == 2

Names == {"a", "b"}
Projects == {"p1", "p2"}
\* Two versions of a specification payload tell "identical" from "different".
Payloads == {"v1", "v2"}
Intervals == {"i1"}

\* registry_config.cache_ttl_seconds: unset, 0 or a number of seconds.
Unset == 0 - 1
CacheTtlSeconds == {Unset, 0, CacheTtl}

\* __init__: cached_registry_proto_ttl, 0 when cache_ttl_seconds is unset.
InitTtl(cache_ttl_seconds) ==
    IF cache_ttl_seconds # Unset THEN cache_ttl_seconds ELSE 0

Ttls == {InitTtl(s) : s \in CacheTtlSeconds}

\* The objects a caller applies, as (name, project, payload): one object in two
\* versions, the same name in another project, another name in the same project.
Objects ==
    {<<"a", "p1", "v1">>, <<"a", "p1", "v2">>, <<"a", "p2", "v1">>, <<"b", "p1", "v1">>}

\* The feature views a caller applies in each of the three variants, and an
\* on-demand feature view of another name that lives next to them.
FeatureViewObjects ==
    {<<"a", "p1", "v1">>, <<"a", "p1", "v2">>, <<"a", "p2", "v1">>}

FeatureViewInputs(variant) ==
    IF variant = "OnDemandFeatureView"
    THEN FeatureViewObjects \cup {<<"b", "p1", "v1">>}
    ELSE FeatureViewObjects

REGISTRY_SCHEMA_VERSION == "1"

Variants == {"FeatureView", "OnDemandFeatureView", "RequestFeatureView"}

---------------------------------------------------------------------------
(* RegistryProto values. *)

\* RegistryProto(): every repeated field empty, the schema version unset.
RegistryProto ==
    [registry_schema_version |-> "",
     entities |-> <<>>,
     feature_views |-> <<>>,
     on_demand_feature_views |-> <<>>,
     request_feature_views |-> <<>>,
     feature_services |-> <<>>,
     infra |-> ""]

\* Python's None for an Optional[RegistryProto]: told apart by its tag.
None == [RegistryProto EXCEPT !.registry_schema_version = "None"]

\* Python's None for an Optional[datetime].
NoTime == 0 - 1

FeatureViewCollections ==
    {"feature_views", "on_demand_feature_views", "request_feature_views"}

Collections == {"entities", "feature_services"} \cup FeatureViewCollections

TotalEntries(reg) ==
    Len(reg.entities) + Len(reg.feature_views) + Len(reg.on_demand_feature_views)
        + Len(reg.request_feature_views) + Len(reg.feature_services)

\* The families of collections a RegistryProto has entries in.
Families(reg) ==
    {f \in {"entities", "feature_services", "feature_views", "infra"} :
        IF f = "feature_views"
        THEN \E c \in FeatureViewCollections : reg[c] # <<>>
        ELSE IF f = "infra" THEN reg.infra # "" ELSE reg[f] # <<>>}

\* The bound on the explored behaviours: a cached proto of at most MaxEntries
\* entries, and one family of collections in use in the cache and the store.
WithinBounds(reg, st) ==
    /\ TotalEntries(reg) <= MaxEntries
    /\ Cardinality(Families(reg) \cup Families(st)) <= 1

\* `del seq[idx]` (idx counted from 1 here).
RemoveAt(seq, idx) ==
    [i \in 1..(Len(seq) - 1) |-> IF i < idx THEN seq[i] ELSE seq[i + 1]]

\* The test every scan of a collection makes: same name and same project.
Matches(proto, name, project) ==
    proto.name = name /\ proto.project = project

\* Index of the first entry of seq for (name, project); 0 when there is none.
FirstIndex(seq, name, project) ==
    IF \E i \in 1..Len(seq) : Matches(seq[i], name, project)
    THEN CHOOSE i \in 1..Len(seq) :
            /\ Matches(seq[i], name, project)
            /\ \A j \in 1..(i - 1) : ~Matches(seq[j], name, project)
    ELSE 0

\* The loop of apply_entity: delete the first match and break.
DeleteFirst(seq, name, project) ==
    IF FirstIndex(seq, name, project) = 0
    THEN seq
    ELSE RemoveAt(seq, FirstIndex(seq, name, project))

\* The loop of apply_feature_service: it deletes while it enumerates and does
\* not break, so after a deletion the enumeration goes on at the next index of
\* the shortened container.
RECURSIVE DeleteNoBreak(_, _, _, _)
DeleteNoBreak(seq, i, name, project) ==
    IF i > Len(seq)
    THEN seq
    ELSE IF Matches(seq[i], name, project)
         THEN DeleteNoBreak(RemoveAt(seq, i), i + 1, name, project)
         ELSE DeleteNoBreak(seq, i + 1, name, project)

\* X.to_proto() with spec.project stamped on it.
Proto(name, project, spec) ==
    [name |-> name, project |-> project, spec |-> spec]

\* FeatureView.to_proto(): it also carries the materialization intervals.
FeatureViewProto(name, project, spec, mi) ==
    [name |-> name, project |-> project, spec |-> spec, mi |-> mi]

\* X.from_proto(proto): the Python object; it does not carry the project.
FromProto(proto) ==
    IF "mi" \in DOMAIN proto
    THEN [name |-> proto.name, spec |-> proto.spec, mi |-> proto.mi]
    ELSE [name |-> proto.name, spec |-> proto.spec]

\* What a get returns when it raises.
NoResult == <<>>

\* The entry a get_* scan returns: the first match, as a Python object.
Lookup(seq, name, project) ==
    IF FirstIndex(seq, name, project) = 0
    THEN NoResult
    ELSE <<FromProto(seq[FirstIndex(seq, name, project)])>>

---------------------------------------------------------------------------
(* The cache and refresh controller. *)

\* `expired` with >= for >: the cached proto expires one tick early.
Expired_Early ==
    \/ cached_registry_proto = None
    \/ cached_registry_proto_created = NoTime
    \/ /\ cached_registry_proto_ttl > 0
       /\ now >= cached_registry_proto_created + cached_registry_proto_ttl

\* `expired` with a tick of grace: the cached proto outlives its TTL by one.
Expired_Late ==
    \/ cached_registry_proto = None
    \/ cached_registry_proto_created = NoTime
    \/ /\ cached_registry_proto_ttl > 0
       /\ now > cached_registry_proto_created + cached_registry_proto_ttl + 1

\* `expired` without the test that makes a TTL of 0 mean infinity.
Expired_ZeroTtl ==
    \/ cached_registry_proto = None
    \/ cached_registry_proto_created = NoTime
    \/ now > cached_registry_proto_created + cached_registry_proto_ttl

\* `expired` of _get_registry_proto.
Expired ==
    \/ cached_registry_proto = None
    \/ cached_registry_proto_created = NoTime
    \/ /\ cached_registry_proto_ttl > 0
       /\ now > cached_registry_proto_created + cached_registry_proto_ttl

\* NoopRegistryStore.get_registry_proto(): an empty registry proto.
NoopGetRegistryProto == RegistryProto

\* self._registry_store.get_registry_proto(): what the load returns, None
\* standing for the FileNotFoundError of a store that holds nothing.
StoreLoad ==
    IF registry_store = "noop" THEN NoopGetRegistryProto ELSE store

\* _get_registry_proto that serves an unexpired cache whatever allow_cache is.
GetRegistryProto_CacheFirst(allow_cache) ==
    IF ~Expired
    THEN [raised |-> FALSE, proto |-> cached_registry_proto,
          created |-> cached_registry_proto_created, loads |-> 0]
    ELSE IF StoreLoad = None
         THEN [raised |-> TRUE, proto |-> cached_registry_proto,
               created |-> cached_registry_proto_created, loads |-> 1]
         ELSE [raised |-> FALSE, proto |-> StoreLoad, created |-> now, loads |-> 1]

\* _get_registry_proto(allow_cache): the proto it returns and caches, or
\* FileNotFoundError raised by the store's load with the cache left alone.
GetRegistryProto(allow_cache) ==
    IF allow_cache /\ ~Expired
    THEN [raised |-> FALSE, proto |-> cached_registry_proto,
          created |-> cached_registry_proto_created, loads |-> 0]
    ELSE IF StoreLoad = None
         THEN [raised |-> TRUE, proto |-> cached_registry_proto,
               created |-> cached_registry_proto_created, loads |-> 1]
         ELSE [raised |-> FALSE, proto |-> StoreLoad, created |-> now, loads |-> 1]

\* _prepare_registry_for_changes() that leaves the schema version of the
\* proto it synthesizes unset.
PrepareRegistryForChanges_NoVersion ==
    LET got == GetRegistryProto(TRUE)
    IN  IF got.raised
        THEN [proto |-> RegistryProto, created |-> now, loads |-> got.loads]
        ELSE [proto |-> got.proto, created |-> got.created, loads |-> got.loads]

\* _prepare_registry_for_changes(): the working proto of a mutating call.
PrepareRegistryForChanges ==
    LET got == GetRegistryProto(TRUE)
    IN  IF got.raised
        THEN [proto |-> [RegistryProto EXCEPT
                            !.registry_schema_version = REGISTRY_SCHEMA_VERSION],
              created |-> now, loads |-> got.loads]
        ELSE [proto |-> got.proto, created |-> got.created, loads |-> got.loads]

\* NoopRegistryStore.update_registry_proto(): nothing is written.
NoopUpdateRegistryProto(reg) == store

\* commit(): what the backend store holds after it, given the cached proto.
CommitStore(reg) ==
    IF registry_store = "noop"
    THEN NoopUpdateRegistryProto(reg)
    ELSE IF reg # None THEN reg ELSE store

---------------------------------------------------------------------------
(* What a call does, as a record: the cached proto, its stamp and the store *)
(* it leaves, how it ended, the loads and persists it made, what it         *)
(* returned.                                                                *)

\* Mutated, with commit() called before the mutation instead of after it.
Mutated_CommitFirst(prep, reg, commit, outcome) ==
    [proto |-> reg, created |-> prep.created,
     store |-> IF commit THEN CommitStore(prep.proto) ELSE store,
     outcome |-> outcome, loads |-> prep.loads,
     persists |-> IF commit THEN 1 ELSE 0, result |-> NoResult]

\* A mutating call that reached its end: `if commit: self.commit()`.
Mutated(prep, reg, commit, outcome) ==
    [proto |-> reg, created |-> prep.created,
     store |-> IF commit THEN CommitStore(reg) ELSE store,
     outcome |-> outcome, loads |-> prep.loads,
     persists |-> IF commit THEN 1 ELSE 0, result |-> NoResult]

\* A mutating call that raised, or returned early, after its refresh guard.
Left(prep, outcome) ==
    [proto |-> prep.proto, created |-> prep.created, store |-> store,
     outcome |-> outcome, loads |-> prep.loads, persists |-> 0,
     result |-> NoResult]

\* A read: the scan of `collection` for (name, project) in the proto that
\* _get_registry_proto(allow_cache) returned.
Read(collection, name, project, allow_cache, notFound) ==
    LET got == GetRegistryProto(allow_cache)
    IN  [proto |-> got.proto, created |-> got.created, store |-> store,
         outcome |-> IF got.raised THEN "FileNotFoundError"
                     ELSE IF FirstIndex(got.proto[collection], name, project) = 0
                          THEN notFound ELSE "ok",
         loads |-> got.loads, persists |-> 0,
         result |-> IF got.raised THEN NoResult
                    ELSE Lookup(got.proto[collection], name, project)]

\* The step a call makes.
Does(op, call) ==
    /\ cached_registry_proto' = call.proto
    /\ cached_registry_proto_created' = call.created
    /\ store' = call.store
    /\ last' = [op |-> op, outcome |-> call.outcome, loads |-> call.loads,
                persists |-> call.persists]
    /\ UNCHANGED <<cached_registry_proto_ttl, now>>

---------------------------------------------------------------------------
(* Entities. *)

\* apply_entity without the loop that deletes the entry it replaces.
apply_entity_NoDelete(name, project, spec, commit) ==
    LET prep == PrepareRegistryForChanges
        reg == [prep.proto EXCEPT !.entities =
                   Append(@, Proto(name, project, spec))]
    IN  Mutated(prep, reg, commit, "ok")

apply_entity(name, project, spec, commit) ==
    LET prep == PrepareRegistryForChanges
        reg == [prep.proto EXCEPT !.entities =
                   Append(DeleteFirst(@, name, project), Proto(name, project, spec))]
    IN  Mutated(prep, reg, commit, "ok")

get_entity(name, project, allow_cache) ==
    Read("entities", name, project, allow_cache, "EntityNotFoundException")

\* delete_entity with a scan that compares the name and not the project.
delete_entity_ByName(name, project, commit) ==
    LET prep == PrepareRegistryForChanges
        ents == prep.proto.entities
        hit == {i \in 1..Len(ents) : ents[i].name = name}
        idx == IF hit = {} THEN 0 ELSE CHOOSE i \in hit : \A j \in hit : i <= j
    IN  IF idx = 0
        THEN Left(prep, "EntityNotFoundException")
        ELSE Mutated(prep, [prep.proto EXCEPT !.entities = RemoveAt(@, idx)],
                     commit, "ok")

delete_entity(name, project, commit) ==
    LET prep == PrepareRegistryForChanges
        idx == FirstIndex(prep.proto.entities, name, project)
    IN  IF idx = 0
        THEN Left(prep, "EntityNotFoundException")
        ELSE Mutated(prep, [prep.proto EXCEPT !.entities = RemoveAt(@, idx)],
                     commit, "ok")

---------------------------------------------------------------------------
(* Feature services. *)

apply_feature_service(name, project, spec, commit) ==
    LET prep == PrepareRegistryForChanges
        reg == [prep.proto EXCEPT !.feature_services =
                   Append(DeleteNoBreak(@, 1, name, project),
                          Proto(name, project, spec))]
    IN  Mutated(prep, reg, commit, "ok")

get_feature_service(name, project, allow_cache) ==
    Read("feature_services", name, project, allow_cache,
         "FeatureServiceNotFoundException")

delete_feature_service(name, project, commit) ==
    LET prep == PrepareRegistryForChanges
        idx == FirstIndex(prep.proto.feature_services, name, project)
    IN  IF idx = 0
        THEN Left(prep, "FeatureServiceNotFoundException")
        ELSE Mutated(prep, [prep.proto EXCEPT !.feature_services = RemoveAt(@, idx)],
                     commit, "ok")

---------------------------------------------------------------------------
(* Feature views of the three variants. *)

\* The collection apply_feature_view picks by isinstance.
CollectionOf(variant) ==
    CASE variant = "FeatureView" -> "feature_views"
      [] variant = "OnDemandFeatureView" -> "on_demand_feature_views"
      [] variant = "RequestFeatureView" -> "request_feature_views"

\* The names a collection uses (the keys of one dict comprehension).
NamesIn(seq) == {seq[i].name : i \in 1..Len(seq)}

\* _existing_feature_view_names_to_fvs() with request_fvs left out of the merge.
ExistingFeatureViewNamesToFvs_NoRequest(reg) ==
    [n \in NamesIn(reg.on_demand_feature_views) \cup NamesIn(reg.feature_views) |->
        IF n \in NamesIn(reg.feature_views) THEN "FeatureView"
        ELSE "OnDemandFeatureView"]

\* _existing_feature_view_names_to_fvs(): {**odfvs, **fvs, **request_fvs},
\* keyed by name alone; of each value only its proto class is looked at.
ExistingFeatureViewNamesToFvs(reg) ==
    [n \in NamesIn(reg.on_demand_feature_views) \cup NamesIn(reg.feature_views)
            \cup NamesIn(reg.request_feature_views) |->
        IF n \in NamesIn(reg.request_feature_views) THEN "RequestFeatureView"
        ELSE IF n \in NamesIn(reg.feature_views) THEN "FeatureView"
        ELSE "OnDemandFeatureView"]

\* _check_conflicting_feature_view_names() with the isinstance test inverted.
CheckConflictingFeatureViewNames_Inverted(reg, variant, name) ==
    /\ name \in DOMAIN ExistingFeatureViewNamesToFvs(reg)
    /\ ExistingFeatureViewNamesToFvs(reg)[name] = variant

\* _check_conflicting_feature_view_names(): TRUE when it raises.
CheckConflictingFeatureViewNames(reg, variant, name) ==
    /\ name \in DOMAIN ExistingFeatureViewNamesToFvs(reg)
    /\ ExistingFeatureViewNamesToFvs(reg)[name] # variant

\* to_proto() of the feature view a caller passes: a freshly declared view has
\* no materialization intervals.
IncomingProto(variant, name, project, spec) ==
    IF variant = "FeatureView"
    THEN FeatureViewProto(name, project, spec, <<>>)
    ELSE Proto(name, project, spec)

\* `from_proto(existing) == feature_view`: the views' __eq__ compares what
\* they specify, not the materialization intervals recorded for them.
FeatureViewEq(x, y) ==
    x.name = y.name /\ x.spec = y.spec

\* apply_feature_view without the early return on an identical entry.
apply_feature_view_AlwaysReplace(variant, name, project, spec, commit) ==
    LET prep == PrepareRegistryForChanges
        coll == CollectionOf(variant)
        incoming == IncomingProto(variant, name, project, spec)
    IN  IF CheckConflictingFeatureViewNames(prep.proto, variant, name)
        THEN Left(prep, "ConflictingFeatureViewNames")
        ELSE Mutated(prep,
                     [prep.proto EXCEPT ![coll] =
                         Append(DeleteFirst(@, name, project), incoming)],
                     commit, "ok")

apply_feature_view(variant, name, project, spec, commit) ==
    LET prep == PrepareRegistryForChanges
        coll == CollectionOf(variant)
        incoming == IncomingProto(variant, name, project, spec)
        idx == FirstIndex(prep.proto[coll], name, project)
    IN  IF CheckConflictingFeatureViewNames(prep.proto, variant, name)
        THEN Left(prep, "ConflictingFeatureViewNames")
        ELSE IF idx # 0 /\ FeatureViewEq(FromProto(prep.proto[coll][idx]),
                                         FromProto(incoming))
             THEN Left(prep, "unchanged")
             ELSE Mutated(prep,
                          [prep.proto EXCEPT ![coll] =
                              Append(DeleteFirst(@, name, project), incoming)],
                          commit, "ok")

get_feature_view(name, project, allow_cache) ==
    Read("feature_views", name, project, allow_cache, "FeatureViewNotFoundException")

get_on_demand_feature_view(name, project, allow_cache) ==
    Read("on_demand_feature_views", name, project, allow_cache,
         "OnDemandFeatureViewNotFoundException")

\* apply_materialization without the `del` of the entry it re-inserts.
apply_materialization_ByName(name, project, interval, commit) ==
    LET prep == PrepareRegistryForChanges
        fvs == prep.proto.feature_views
        hit == {i \in 1..Len(fvs) : fvs[i].name = name}
        idx == IF hit = {} THEN 0 ELSE CHOOSE i \in hit : \A j \in hit : i <= j
        updated == FeatureViewProto(fvs[idx].name, project, fvs[idx].spec,
                                    Append(fvs[idx].mi, interval))
    IN  IF idx = 0
        THEN Left(prep, "FeatureViewNotFoundException")
        ELSE Mutated(prep,
                     [prep.proto EXCEPT !.feature_views =
                         Append(RemoveAt(@, idx), updated)],
                     commit, "ok")

apply_materialization_Prepend(name, project, interval, commit) ==
    LET prep == PrepareRegistryForChanges
        fvs == prep.proto.feature_views
        idx == FirstIndex(fvs, name, project)
        updated == FeatureViewProto(fvs[idx].name, project, fvs[idx].spec,
                                    <<interval>> \o fvs[idx].mi)
    IN  IF idx = 0
        THEN Left(prep, "FeatureViewNotFoundException")
        ELSE Mutated(prep,
                     [prep.proto EXCEPT !.feature_views =
                         Append(RemoveAt(@, idx), updated)],
                     commit, "ok")

apply_materialization_NoDelete(name, project, interval, commit) ==
    LET prep == PrepareRegistryForChanges
        fvs == prep.proto.feature_views
        idx == FirstIndex(fvs, name, project)
        updated == FeatureViewProto(fvs[idx].name, project, fvs[idx].spec,
                                    Append(fvs[idx].mi, interval))
    IN  IF idx = 0
        THEN Left(prep, "FeatureViewNotFoundException")
        ELSE Mutated(prep,
                     [prep.proto EXCEPT !.feature_views = Append(@, updated)],
                     commit, "ok")

apply_materialization(name, project, interval, commit) ==
    LET prep == PrepareRegistryForChanges
        fvs == prep.proto.feature_views
        idx == FirstIndex(fvs, name, project)
        updated == FeatureViewProto(fvs[idx].name, project, fvs[idx].spec,
                                    Append(fvs[idx].mi, interval))
    IN  IF idx = 0
        THEN Left(prep, "FeatureViewNotFoundException")
        ELSE Mutated(prep,
                     [prep.proto EXCEPT !.feature_views =
                         Append(RemoveAt(@, idx), updated)],
                     commit, "ok")

\* delete_feature_view without the scan of request_feature_views.
delete_feature_view_NoRequest(name, project, commit) ==
    LET prep == PrepareRegistryForChanges
        idx == FirstIndex(prep.proto.feature_views, name, project)
    IN  IF idx # 0
        THEN Mutated(prep, [prep.proto EXCEPT !.feature_views = RemoveAt(@, idx)],
                     commit, "ok")
        ELSE Left(prep, "FeatureViewNotFoundException")

\* delete_feature_view that scans on_demand_feature_views too.
delete_feature_view_OnDemand(name, project, commit) ==
    LET prep == PrepareRegistryForChanges
        idx == FirstIndex(prep.proto.feature_views, name, project)
        ridx == FirstIndex(prep.proto.request_feature_views, name, project)
        oidx == FirstIndex(prep.proto.on_demand_feature_views, name, project)
    IN  IF idx # 0
        THEN Mutated(prep, [prep.proto EXCEPT !.feature_views = RemoveAt(@, idx)],
                     commit, "ok")
        ELSE IF ridx # 0
             THEN Mutated(prep,
                          [prep.proto EXCEPT !.request_feature_views =
                              RemoveAt(@, ridx)],
                          commit, "ok")
             ELSE IF oidx # 0
                  THEN Mutated(prep,
                               [prep.proto EXCEPT !.on_demand_feature_views =
                                   RemoveAt(@, oidx)],
                               commit, "ok")
                  ELSE Left(prep, "FeatureViewNotFoundException")

delete_feature_view(name, project, commit) ==
    LET prep == PrepareRegistryForChanges
        idx == FirstIndex(prep.proto.feature_views, name, project)
        ridx == FirstIndex(prep.proto.request_feature_views, name, project)
    IN  IF idx # 0
        THEN Mutated(prep, [prep.proto EXCEPT !.feature_views = RemoveAt(@, idx)],
                     commit, "ok")
        ELSE IF ridx # 0
             THEN Mutated(prep,
                          [prep.proto EXCEPT !.request_feature_views =
                              RemoveAt(@, ridx)],
                          commit, "ok")
             ELSE Left(prep, "FeatureViewNotFoundException")

---------------------------------------------------------------------------
(* The infra object, the lists and the projection to a dict. *)

update_infra(infra, project, commit) ==
    LET prep == PrepareRegistryForChanges
    IN  Mutated(prep, [prep.proto EXCEPT !.infra = infra], commit, "ok")

get_infra(project, allow_cache) ==
    LET got == GetRegistryProto(allow_cache)
    IN  [proto |-> got.proto, created |-> got.created, store |-> store,
         outcome |-> IF got.raised THEN "FileNotFoundError" ELSE "ok",
         loads |-> got.loads, persists |-> 0,
         result |-> IF got.raised THEN NoResult ELSE <<got.proto.infra>>]

\* The loop of a list_* without its test of spec.project.
InProject_AnyProject(seq, project) ==
    [i \in 1..Len(seq) |-> FromProto(seq[i])]

\* The loop of a list_*: the entries of the project, in collection order, as
\* Python objects.
InProject(seq, project) ==
    LET kept == SelectSeq(seq, LAMBDA e : e.project = project)
    IN  [i \in 1..Len(kept) |-> FromProto(kept[i])]

List(collection, project, allow_cache) ==
    LET got == GetRegistryProto(allow_cache)
    IN  [proto |-> got.proto, created |-> got.created, store |-> store,
         outcome |-> IF got.raised THEN "FileNotFoundError" ELSE "ok",
         loads |-> got.loads, persists |-> 0,
         result |-> IF got.raised THEN NoResult
                    ELSE InProject(got.proto[collection], project)]

list_entities(project, allow_cache) ==
    List("entities", project, allow_cache)

list_feature_services(project, allow_cache) ==
    List("feature_services", project, allow_cache)

list_on_demand_feature_views(project, allow_cache) ==
    List("on_demand_feature_views", project, allow_cache)

list_feature_views(project, allow_cache) ==
    List("feature_views", project, allow_cache)

list_request_feature_views(project, allow_cache) ==
    List("request_feature_views", project, allow_cache)

\* How Python orders the names in use: "a" < "b".
NameKey(name) ==
    CASE name = "a" -> 1 [] name = "b" -> 2

\* sorted(seq, key=lambda x: x.name): a stable sort, here by insertion of
\* each element after the elements whose key is not greater.
RECURSIVE Sorted(_)
Sorted(seq) ==
    IF seq = <<>>
    THEN <<>>
    ELSE LET rest == Sorted(SubSeq(seq, 1, Len(seq) - 1))
             x == seq[Len(seq)]
             k == Cardinality({i \in 1..Len(rest) :
                                NameKey(rest[i].name) <= NameKey(x.name)})
         IN  SubSeq(rest, 1, k) \o <<x>> \o SubSeq(rest, k + 1, Len(rest))

\* to_dict with the lists taken as they come, not sorted.
ToDictOf_Unsorted(reg, project) ==
    LET sections ==
            [entities |-> InProject(reg.entities, project),
             featureViews |-> InProject(reg.feature_views, project),
             featureServices |-> InProject(reg.feature_services, project),
             onDemandFeatureViews |->
                InProject(reg.on_demand_feature_views, project),
             requestFeatureViews |->
                InProject(reg.request_feature_views, project)]
    IN  [k \in {l \in DOMAIN sections : sections[l] # <<>>} |-> sections[k]]

\* The dict to_dict builds from the registry its lists read: a defaultdict
\* that has a key for each kind with at least one entry in the project.
ToDictOf(reg, project) ==
    LET sections ==
            [entities |-> Sorted(InProject(reg.entities, project)),
             featureViews |-> Sorted(InProject(reg.feature_views, project)),
             featureServices |-> Sorted(InProject(reg.feature_services, project)),
             onDemandFeatureViews |->
                Sorted(InProject(reg.on_demand_feature_views, project)),
             requestFeatureViews |->
                Sorted(InProject(reg.request_feature_views, project))]
    IN  [k \in {l \in DOMAIN sections : sections[l] # <<>>} |-> sections[k]]

\* to_dict(project): five lists with allow_cache=False, each a load of the
\* store; the first raises when the store holds nothing.
to_dict(project) ==
    LET first == list_entities(project, FALSE)
    IN  IF first.outcome # "ok"
        THEN first
        ELSE [first EXCEPT !.loads = 5, !.result = <<ToDictOf(first.proto, project)>>]

---------------------------------------------------------------------------
(* commit(), refresh() and the clock. *)

commit ==
    [proto |-> cached_registry_proto, created |-> cached_registry_proto_created,
     store |-> CommitStore(cached_registry_proto), outcome |-> "ok", loads |-> 0,
     persists |-> IF cached_registry_proto # None THEN 1 ELSE 0,
     result |-> NoResult]

refresh ==
    LET got == GetRegistryProto(FALSE)
    IN  [proto |-> got.proto, created |-> got.created, store |-> store,
         outcome |-> IF got.raised THEN "FileNotFoundError" ELSE "ok",
         loads |-> got.loads, persists |-> 0, result |-> NoResult]

\* The clock moves on by d.
Tick(d) ==
    /\ now + d <= MaxTime
    /\ now' = now + d
    /\ last' = [op |-> "tick", outcome |-> "ok", loads |-> 0, persists |-> 0]
    /\ UNCHANGED <<cached_registry_proto, cached_registry_proto_created,
                   cached_registry_proto_ttl, store>>

---------------------------------------------------------------------------
(* The specification: any sequence of calls by one caller, from a registry *)
(* just constructed over a store that holds nothing.                        *)

Observers == <<nReads, nLoads, firstLoad>>

\* The threads of SpecThreads; a single caller needs none of their state.
ThreadIds == 1..MaxThreads

ThreadVars == <<refresh_lock, threads, reloaded_by>>

\* A thread that has not called yet.
Idle ==
    [pc |-> "idle", allow_cache |-> FALSE, behind |-> 0, loads |-> 0, got |-> None]

NoThreads ==
    /\ refresh_lock = 0
    /\ threads = [t \in ThreadIds |-> Idle]
    /\ reloaded_by = 0

\* The arguments and the result of diff_between in SpecDiff; the other
\* specifications do not call it.
DiffVars == <<current_registry, new_registry, diff>>

\* RegistryDiff(): no FcoDiff added, not returned yet.
NoRegistryDiff == [fco_diffs |-> <<>>, returned |-> FALSE]

NoDiff ==
    /\ current_registry = None
    /\ new_registry = None
    /\ diff = NoRegistryDiff

\* The registry that clone() returns, while the caller acts on the other
\* one (SpecClone); the other specifications have one registry, bound to
\* the backend store.
CloneVars == <<registry_store, acting, other>>

\* No clone has been made.
NoOther ==
    [cached_registry_proto |-> None, cached_registry_proto_created |-> NoTime,
     cached_registry_proto_ttl |-> 0, registry_store |-> "none",
     same_proto |-> FALSE]

NoClone ==
    /\ registry_store = "backend"
    /\ acting = "r"
    /\ other = NoOther

\* Calls on one family of collections are explored while no other family is
\* in use in the cache or the store.
InFamily(f) ==
    Families(cached_registry_proto) \cup Families(store) \subseteq {f}

Init ==
    /\ cached_registry_proto = None
    /\ cached_registry_proto_created = NoTime
    /\ cached_registry_proto_ttl = InitTtl(CacheTtl)
    /\ store = None
    /\ now = 0
    /\ last = [op |-> "init", outcome |-> "ok", loads |-> 0, persists |-> 0]
    /\ nReads = 0
    /\ nLoads = 0
    /\ firstLoad = NoTime
    /\ NoThreads
    /\ NoDiff
    /\ NoClone

ApplyEntity ==
    /\ InFamily("entities")
    /\ \E o \in Objects, c \in BOOLEAN :
            LET call == apply_entity(o[1], o[2], o[3], c)
            IN  WithinBounds(call.proto, call.store) /\ Does("apply_entity", call)

GetEntity ==
    /\ InFamily("entities")
    /\ \E n \in Names, p \in Projects :
            Does("get_entity", get_entity(n, p, FALSE))

DeleteEntity ==
    /\ InFamily("entities")
    /\ \E n \in Names, p \in Projects, c \in BOOLEAN :
            Does("delete_entity", delete_entity(n, p, c))

ApplyFeatureService ==
    /\ InFamily("feature_services")
    /\ \E o \in Objects, c \in BOOLEAN :
            LET call == apply_feature_service(o[1], o[2], o[3], c)
            IN  WithinBounds(call.proto, call.store) /\ Does("apply_feature_service", call)

GetFeatureService ==
    /\ InFamily("feature_services")
    /\ \E n \in Names, p \in Projects :
            Does("get_feature_service", get_feature_service(n, p, FALSE))

DeleteFeatureService ==
    /\ InFamily("feature_services")
    /\ \E n \in Names, p \in Projects, c \in BOOLEAN :
            Does("delete_feature_service", delete_feature_service(n, p, c))

ApplyFeatureView ==
    /\ InFamily("feature_views")
    /\ \E v \in Variants, c \in BOOLEAN : \E o \in FeatureViewInputs(v) :
            LET call == apply_feature_view(v, o[1], o[2], o[3], c)
            IN  WithinBounds(call.proto, call.store) /\ Does("apply_feature_view", call)

GetFeatureView ==
    /\ InFamily("feature_views")
    /\ \E n \in Names, p \in Projects :
            Does("get_feature_view", get_feature_view(n, p, FALSE))

GetOnDemandFeatureView ==
    /\ InFamily("feature_views")
    /\ \E n \in Names, p \in Projects :
            Does("get_on_demand_feature_view", get_on_demand_feature_view(n, p, FALSE))

ApplyMaterialization ==
    /\ InFamily("feature_views")
    /\ \E n \in Names, p \in Projects, i \in Intervals, c \in BOOLEAN :
            LET call == apply_materialization(n, p, i, c)
            IN  /\ \A k \in 1..Len(call.proto.feature_views) :
                       Len(call.proto.feature_views[k].mi) <= MaxIntervals
                /\ Does("apply_materialization", call)

DeleteFeatureView ==
    /\ InFamily("feature_views")
    /\ \E n \in Names, p \in Projects, c \in BOOLEAN :
            Does("delete_feature_view", delete_feature_view(n, p, c))

UpdateInfra ==
    /\ InFamily("infra")
    /\ \E i \in Payloads, p \in Projects, c \in BOOLEAN :
            LET call == update_infra(i, p, c)
            IN  WithinBounds(call.proto, call.store) /\ Does("update_infra", call)

GetInfra ==
    /\ InFamily("infra")
    /\ \E p \in Projects : Does("get_infra", get_infra(p, FALSE))

ListEntities ==
    /\ InFamily("entities")
    /\ \E p \in Projects : Does("list_entities", list_entities(p, FALSE))

ListFeatureServices ==
    /\ InFamily("feature_services")
    /\ \E p \in Projects :
            Does("list_feature_services", list_feature_services(p, FALSE))

ListFeatureViews ==
    /\ InFamily("feature_views")
    /\ \E p \in Projects :
            Does("list_feature_views", list_feature_views(p, FALSE))

ListOnDemandFeatureViews ==
    /\ InFamily("feature_views")
    /\ \E p \in Projects :
            Does("list_on_demand_feature_views",
                 list_on_demand_feature_views(p, FALSE))

ListRequestFeatureViews ==
    /\ InFamily("feature_views")
    /\ \E p \in Projects :
            Does("list_request_feature_views",
                 list_request_feature_views(p, FALSE))

ToDict ==
    \E p \in Projects : Does("to_dict", to_dict(p))

Commit == Does("commit", commit)

\* Between two calls either no time to speak of passes, or enough for the
\* cached proto to outlive its TTL.
Elapse == Tick(CacheTtl + 1)

Refresh == Does("refresh", refresh)

Next ==
    /\ \/ ApplyEntity
       \/ GetEntity
       \/ DeleteEntity
       \/ ApplyFeatureService
       \/ GetFeatureService
       \/ DeleteFeatureService
       \/ ApplyFeatureView
       \/ GetFeatureView
       \/ GetOnDemandFeatureView
       \/ ApplyMaterialization
       \/ DeleteFeatureView
       \/ UpdateInfra
       \/ GetInfra
       \/ ListEntities
       \/ ListFeatureServices
       \/ ListFeatureViews
       \/ ListOnDemandFeatureViews
       \/ ListRequestFeatureViews
       \/ ToDict
       \/ Commit
       \/ Refresh
       \/ Elapse
    /\ UNCHANGED Observers
    /\ UNCHANGED ThreadVars
    /\ UNCHANGED DiffVars
    /\ UNCHANGED CloneVars

Spec == Init /\ [][Next]_vars

---------------------------------------------------------------------------
(* The cache controller under cached reads: a registry over a store that   *)
(* already holds a registry and that another process may overwrite, read   *)
(* with allow_cache=True while the clock moves on tick by tick.  The       *)
(* observers count the reads and the loads they caused.                     *)

\* Registries found in the store: what other processes persisted.
StoreSnapshots ==
    {[RegistryProto EXCEPT !.registry_schema_version = REGISTRY_SCHEMA_VERSION,
                           !.entities = ents] :
        ents \in {<<>>, <<Proto("a", "p1", "v1")>>, <<Proto("a", "p1", "v2")>>}}

InitCache ==
    /\ cached_registry_proto = None
    /\ cached_registry_proto_created = NoTime
    /\ cached_registry_proto_ttl \in Ttls
    /\ store \in StoreSnapshots
    /\ now = 0
    /\ last = [op |-> "init", outcome |-> "ok", loads |-> 0, persists |-> 0]
    /\ nReads = 0
    /\ nLoads = 0
    /\ firstLoad = NoTime
    /\ NoThreads
    /\ NoDiff
    /\ NoClone

CachedRead ==
    /\ nReads < MaxReads
    /\ \E n \in Names, p \in Projects :
            LET call == get_entity(n, p, TRUE)
            IN  /\ Does("get_entity", call)
                /\ nReads' = nReads + 1
                /\ nLoads' = nLoads + call.loads
                /\ firstLoad' = IF firstLoad = NoTime /\ call.loads = 1
                                THEN now ELSE firstLoad

\* Another process persists a registry to the same store.
ExternalPersist ==
    /\ \E st \in StoreSnapshots : st # store /\ store' = st
    /\ last' = [op |-> "external_persist", outcome |-> "ok", loads |-> 0,
                persists |-> 0]
    /\ UNCHANGED <<cached_registry_proto, cached_registry_proto_created,
                   cached_registry_proto_ttl, now>>

NextCache ==
    /\ \/ CachedRead
       \/ ExternalPersist /\ UNCHANGED Observers
       \/ Tick(1) /\ UNCHANGED Observers
    /\ UNCHANGED ThreadVars
    /\ UNCHANGED DiffVars
    /\ UNCHANGED CloneVars

SpecCache == InitCache /\ [][NextCache]_vars

---------------------------------------------------------------------------
(* Steps of Spec, by the call that makes them. *)

\* The working proto of a mutating call made now: the cached proto after the
\* call's refresh guard (the cached proto itself unless it is absent or
\* expired).
Work == PrepareRegistryForChanges.proto

\* The Python object a caller passes for (name, payload).
Object(o) == [name |-> o[1], spec |-> o[3]]

AppliedEntity(o, c) ==
    Does("apply_entity", apply_entity(o[1], o[2], o[3], c))

AppliedFeatureService(o, c) ==
    Does("apply_feature_service", apply_feature_service(o[1], o[2], o[3], c))

AppliedFeatureView(v, o, c) ==
    Does("apply_feature_view", apply_feature_view(v, o[1], o[2], o[3], c))

\* A get returned an object equal to the one passed (for feature views, in
\* the sense of their __eq__).
Returns(call, o) ==
    /\ call.outcome = "ok"
    /\ call.result # NoResult
    /\ FeatureViewEq(call.result[1], Object(o))

Returned ==
    {"ok", "unchanged"}

---------------------------------------------------------------------------
(* C1.  Apply, then get. *)

\* C1, as claimed: after apply(O, project) with commit=True returns for an
\* entity, a feature service, a feature view or an on-demand feature view,
\* get(O.name, project) with allow_cache=False returns an object equal to O,
\* whatever calls came before (the store holding a registry to load).
C1_RoundTripAlways ==
    [][/\ last'.op = "apply_entity" =>
            \A o \in Objects :
                AppliedEntity(o, TRUE)
                    => Returns(get_entity(o[1], o[2], FALSE), o)'
       /\ last'.op = "apply_feature_service" =>
            \A o \in Objects :
                AppliedFeatureService(o, TRUE)
                    => Returns(get_feature_service(o[1], o[2], FALSE), o)'
       /\ last'.op = "apply_feature_view" /\ last'.outcome \in Returned
                /\ store' # None =>
            /\ \A o \in FeatureViewInputs("FeatureView") :
                    AppliedFeatureView("FeatureView", o, TRUE)
                        => Returns(get_feature_view(o[1], o[2], FALSE), o)'
            /\ \A o \in FeatureViewInputs("OnDemandFeatureView") :
                    AppliedFeatureView("OnDemandFeatureView", o, TRUE)
                        => Returns(get_on_demand_feature_view(o[1], o[2], FALSE), o)'
      ]_vars

\* C1, amended: the round trip holds for entities and feature services, and
\* for feature views and on-demand feature views whenever apply_feature_view
\* did not return early on finding a semantically identical entry in the
\* working proto.
C1_RoundTrip ==
    [][/\ last'.op = "apply_entity" =>
            \A o \in Objects :
                AppliedEntity(o, TRUE)
                    => Returns(get_entity(o[1], o[2], FALSE), o)'
       /\ last'.op = "apply_feature_service" =>
            \A o \in Objects :
                AppliedFeatureService(o, TRUE)
                    => Returns(get_feature_service(o[1], o[2], FALSE), o)'
       /\ last'.op = "apply_feature_view" /\ last'.outcome = "ok" =>
            /\ \A o \in FeatureViewInputs("FeatureView") :
                    AppliedFeatureView("FeatureView", o, TRUE)
                        => Returns(get_feature_view(o[1], o[2], FALSE), o)'
            /\ \A o \in FeatureViewInputs("OnDemandFeatureView") :
                    AppliedFeatureView("OnDemandFeatureView", o, TRUE)
                        => Returns(get_on_demand_feature_view(o[1], o[2], FALSE), o)'
      ]_vars

\* A feature view was re-applied over an older version of itself with
\* commit=True, next to an entry of another project, and the store holds the
\* new version.
C1_Witness ==
    /\ last.op = "apply_feature_view"
    /\ last.outcome = "ok"
    /\ last.persists = 1
    /\ Len(cached_registry_proto.feature_views) = 2
    /\ cached_registry_proto.feature_views[2].spec = "v2"
    /\ Returns(get_feature_view("a", "p1", FALSE), <<"a", "p1", "v2">>)

---------------------------------------------------------------------------
(* C2.  Commit on apply. *)

\* The registry reg holds object o under (name, project) in `collection`.
Holds(reg, collection, o) ==
    /\ reg # None
    /\ Lookup(reg[collection], o[1], o[2]) # NoResult
    /\ FeatureViewEq(Lookup(reg[collection], o[1], o[2])[1], Object(o))

\* C2, as claimed: whenever apply_entity, apply_feature_service or
\* apply_feature_view is called with commit=True and returns without error,
\* the registry the store holds contains the applied object under
\* (name, project), whatever calls came before.
C2_CommitOnApplyAlways ==
    [][/\ last'.op = "apply_entity" =>
            \A o \in Objects :
                AppliedEntity(o, TRUE) => Holds(store', "entities", o)
       /\ last'.op = "apply_feature_service" =>
            \A o \in Objects :
                AppliedFeatureService(o, TRUE)
                    => Holds(store', "feature_services", o)
       /\ last'.op = "apply_feature_view" /\ last'.outcome \in Returned =>
            \A v \in Variants : \A o \in FeatureViewInputs(v) :
                AppliedFeatureView(v, o, TRUE)
                    => Holds(store', CollectionOf(v), o)
      ]_vars

\* C2, amended: the store holds the applied object after apply_entity and
\* apply_feature_service with commit=True, and after apply_feature_view with
\* commit=True unless it found a semantically identical entry in the working
\* proto: then it returns before commit() and the store is as it was.
C2_CommitOnApply ==
    [][/\ last'.op = "apply_entity" =>
            \A o \in Objects :
                AppliedEntity(o, TRUE) => Holds(store', "entities", o)
       /\ last'.op = "apply_feature_service" =>
            \A o \in Objects :
                AppliedFeatureService(o, TRUE)
                    => Holds(store', "feature_services", o)
       /\ last'.op = "apply_feature_view" =>
            \A v \in Variants : \A o \in FeatureViewInputs(v) :
                AppliedFeatureView(v, o, TRUE) =>
                    /\ last'.outcome = "ok" => Holds(store', CollectionOf(v), o)
                    /\ last'.outcome = "unchanged" =>
                            store' = store /\ last'.persists = 0
      ]_vars

\* A feature service was applied with commit=True next to another one, and
\* the store holds both.
C2_Witness ==
    /\ last.op = "apply_feature_service"
    /\ last.persists = 1
    /\ Len(store.feature_services) = 2
    /\ store = cached_registry_proto

---------------------------------------------------------------------------
(* C3.  Re-applying an unchanged feature view. *)

\* The collection of `variant` in reg has, as its entry for o's
\* (name, project), a feature view semantically identical to o.
IdenticalStored(reg, variant, o) ==
    LET coll == reg[CollectionOf(variant)]
        idx == FirstIndex(coll, o[1], o[2])
    IN  idx # 0 /\ FeatureViewEq(FromProto(coll[idx]), Object(o))

\* C3: apply_feature_view of a feature view semantically identical to the
\* entry stored under its (name, project) in its variant's collection of the
\* working proto leaves that collection as it is: same length, same entries,
\* same order (and so as it was before the call, when the cached proto was
\* neither absent nor expired).
C3_IdempotentReapply ==
    [][last'.op = "apply_feature_view" =>
            \A v \in Variants, c \in BOOLEAN : \A o \in FeatureViewInputs(v) :
                (IdenticalStored(Work, v, o) /\ AppliedFeatureView(v, o, c)) =>
                    /\ cached_registry_proto'[CollectionOf(v)]
                            = Work[CollectionOf(v)]
                    /\ ~Expired => cached_registry_proto'[CollectionOf(v)]
                                        = cached_registry_proto[CollectionOf(v)]
      ]_vars

\* An unchanged feature view was re-applied to a collection of two.
C3_Witness ==
    /\ last.op = "apply_feature_view"
    /\ last.outcome = "unchanged"
    /\ Len(cached_registry_proto.feature_views) = 2

---------------------------------------------------------------------------
(* C4.  Names shared by the three variants. *)

\* The three feature-view collections of a registry.
FeatureViews(reg) ==
    [c \in FeatureViewCollections |-> reg[c]]

\* A feature view of another variant than `variant` is stored in reg under
\* (name, project).
OtherVariantStored(reg, variant, name, project) ==
    \E w \in Variants \ {variant} :
        FirstIndex(reg[CollectionOf(w)], name, project) # 0

\* C4: when a feature view of one variant with name N is stored in project P
\* (in the working proto), apply_feature_view of an object of another variant
\* with name N in project P raises ConflictingFeatureViewNames, the three
\* feature-view collections of the cached proto are those of the working
\* proto, the store is as it was and persist is not called.
C4_ConflictingNames ==
    [][last'.op = "apply_feature_view" =>
            \A v \in Variants, c \in BOOLEAN : \A o \in FeatureViewInputs(v) :
                (OtherVariantStored(Work, v, o[1], o[2])
                    /\ AppliedFeatureView(v, o, c)) =>
                    /\ last'.outcome = "ConflictingFeatureViewNames"
                    /\ FeatureViews(cached_registry_proto') = FeatureViews(Work)
                    /\ ~Expired => FeatureViews(cached_registry_proto')
                                        = FeatureViews(cached_registry_proto)
                    /\ store' = store
                    /\ last'.persists = 0
      ]_vars

\* An apply_feature_view was refused for a name that a request feature view
\* uses, next to an on-demand feature view of another name.
C4_Witness ==
    /\ last.op = "apply_feature_view"
    /\ last.outcome = "ConflictingFeatureViewNames"
    /\ Len(cached_registry_proto.request_feature_views) = 1
    /\ Len(cached_registry_proto.on_demand_feature_views) = 1

---------------------------------------------------------------------------
(* C5.  Deleting what is not there. *)

DeletedEntity(n, p, c) ==
    Does("delete_entity", delete_entity(n, p, c))

DeletedFeatureService(n, p, c) ==
    Does("delete_feature_service", delete_feature_service(n, p, c))

DeletedFeatureView(n, p, c) ==
    Does("delete_feature_view", delete_feature_view(n, p, c))

\* The call raised `exception`, did not persist, and left `collection` of
\* the cached proto as it is in the working proto.
RaisedLeaving(exception, collection) ==
    /\ last'.outcome = exception
    /\ last'.persists = 0
    /\ store' = store
    /\ cached_registry_proto'[collection] = Work[collection]
    /\ ~Expired => cached_registry_proto'[collection]
                        = cached_registry_proto[collection]

\* C5: delete_entity, delete_feature_view and delete_feature_service called
\* with a (name, project) that matches no entry raise EntityNotFoundException,
\* FeatureViewNotFoundException and FeatureServiceNotFoundException, never
\* call persist, and leave the contents of the target collection unchanged.
C5_DeleteMissing ==
    [][\A n \in Names, p \in Projects, c \in BOOLEAN :
        /\ ( /\ last'.op = "delete_entity"
             /\ FirstIndex(Work.entities, n, p) = 0
             /\ DeletedEntity(n, p, c) )
                => RaisedLeaving("EntityNotFoundException", "entities")
        /\ ( /\ last'.op = "delete_feature_service"
             /\ FirstIndex(Work.feature_services, n, p) = 0
             /\ DeletedFeatureService(n, p, c) )
                => RaisedLeaving("FeatureServiceNotFoundException",
                                 "feature_services")
        /\ ( /\ last'.op = "delete_feature_view"
             /\ FirstIndex(Work.feature_views, n, p) = 0
             /\ FirstIndex(Work.request_feature_views, n, p) = 0
             /\ DeletedFeatureView(n, p, c) )
                => /\ RaisedLeaving("FeatureViewNotFoundException", "feature_views")
                   /\ RaisedLeaving("FeatureViewNotFoundException",
                                    "request_feature_views")
      ]_vars

\* delete_entity raised for the entity of a name that another project has.
C5_Witness ==
    /\ last.op = "delete_entity"
    /\ last.outcome = "EntityNotFoundException"
    /\ Len(cached_registry_proto.entities) = 1
    /\ cached_registry_proto.entities[1].name = "a"
    /\ cached_registry_proto.entities[1].project = "p2"
    /\ store = None

---------------------------------------------------------------------------
(* C6, C7.  The invariants of the data model. *)

\* At most one entry of seq for any (name, project).
Unique(seq) ==
    \A i, j \in 1..Len(seq) :
        Matches(seq[i], seq[j].name, seq[j].project) => i = j

UniqueIn(reg) ==
    \A c \in Collections : Unique(reg[c])

\* C6: from an empty store, after any sequence of apply, delete,
\* apply_materialization, refresh and commit calls made one after the other
\* on one registry, each collection of the cached proto holds at most one entry
\* for any (name, project), and so does the registry the store holds.
C6_UniquePerCollection ==
    UniqueIn(cached_registry_proto) /\ UniqueIn(store)

\* A materialization was recorded and persisted for one of two feature views.
C6_Witness ==
    /\ last.op = "apply_materialization"
    /\ last.persists = 1
    /\ Len(cached_registry_proto.feature_views) = 2
    /\ store = cached_registry_proto

\* The (name, project) pairs a collection uses.
PairsIn(seq) == {<<seq[i].name, seq[i].project>> : i \in 1..Len(seq)}

\* C7: from an empty store, after any sequence of apply_feature_view,
\* delete_feature_view and apply_materialization calls, no (name, project)
\* is in more than one of feature_views, on_demand_feature_views and
\* request_feature_views of the cached proto.
C7_OneVariantPerName ==
    \A c, d \in FeatureViewCollections :
        c # d => PairsIn(cached_registry_proto[c])
                    \cap PairsIn(cached_registry_proto[d]) = {}

\* Two of the three collections are in use, after a materialization.
C7_Witness ==
    /\ last.op = "apply_materialization"
    /\ Len(cached_registry_proto.feature_views) = 1
    /\ Len(cached_registry_proto.on_demand_feature_views) = 1

---------------------------------------------------------------------------
(* C8, C9.  Reads that allow the cache, under SpecCache. *)

\* The step is a get_entity(n, p, allow_cache=True) that returned what the
\* cached proto of before the call holds for (n, p).
ServedFromCache ==
    /\ last'.loads = 0
    /\ cached_registry_proto' = cached_registry_proto
    /\ cached_registry_proto_created' = cached_registry_proto_created
    /\ \A n \in Names, p \in Projects :
            Does("get_entity", get_entity(n, p, TRUE)) =>
                get_entity(n, p, TRUE).result
                    = Lookup(cached_registry_proto.entities, n, p)

\* C8: with a TTL > 0 and no cached proto at first, the reads with
\* allow_cache=True made while now <= loadTime + TTL cause exactly one load
\* of the store in total, the first one; every later read in that window
\* returns the cached proto and does not call the store.
C8_CacheHitWithinTtl ==
    [][( /\ cached_registry_proto_ttl > 0
         /\ nReads' = nReads + 1
         /\ now <= firstLoad' + cached_registry_proto_ttl )
            => /\ nLoads' = 1
               /\ firstLoad' # NoTime
               /\ nReads = 0 => last'.loads = 1
               /\ nReads >= 1 => ServedFromCache
      ]_vars

\* Three reads, the last at the end of the window and after another process
\* changed what the store holds, caused one load.
C8_Witness ==
    /\ cached_registry_proto_ttl > 0
    /\ last.op = "get_entity"
    /\ nReads = MaxReads
    /\ nLoads = 1
    /\ now = firstLoad + cached_registry_proto_ttl
    /\ store # cached_registry_proto

\* C9: when the TTL is 0 (cache_ttl_seconds 0 or unset) and a cached proto
\* exists, every read with allow_cache=True returns the cached proto without
\* a load of the store, however long ago the proto was loaded.
C9_TtlZeroNeverExpires ==
    [][( /\ cached_registry_proto_ttl = 0
         /\ cached_registry_proto # None
         /\ nReads' = nReads + 1 )
            => ServedFromCache
      ]_vars

\* A read at the last instant of the clock was served from the proto loaded at
\* the first, which the store no longer holds.
C9_Witness ==
    /\ cached_registry_proto_ttl = 0
    /\ last.op = "get_entity"
    /\ last.loads = 0
    /\ now = MaxTime
    /\ cached_registry_proto_created = 0
    /\ store # cached_registry_proto

---------------------------------------------------------------------------
(* C10.  Reads that do not allow the cache. *)

\* The step loaded the store once and, the load having succeeded, cached what
\* it produced with the time of the load.
Reloaded ==
    /\ last'.loads = 1
    /\ store # None =>
        /\ cached_registry_proto' = store
        /\ cached_registry_proto_created' = now

\* The forced read `call` of (n, p) in `collection`, made as `op`, returned
\* what the store holds.
ReadsStore(op, call, collection, n, p) ==
    (Does(op, call) /\ store # None)
        => call.result = Lookup(store[collection], n, p)

\* C10: every read with allow_cache=False, refresh() included, loads the store
\* exactly once, returns what the load produced and replaces the cached proto
\* and its time stamp with it, whether or not an unexpired cached proto
\* existed.
C10_ForcedRefresh ==
    [][/\ last'.op = "refresh" => Reloaded
       /\ last'.op = "get_entity" =>
            /\ Reloaded
            /\ \A n \in Names, p \in Projects :
                ReadsStore("get_entity", get_entity(n, p, FALSE), "entities", n, p)
       /\ last'.op = "get_feature_service" =>
            /\ Reloaded
            /\ \A n \in Names, p \in Projects :
                ReadsStore("get_feature_service",
                           get_feature_service(n, p, FALSE), "feature_services", n, p)
       /\ last'.op = "get_feature_view" =>
            /\ Reloaded
            /\ \A n \in Names, p \in Projects :
                ReadsStore("get_feature_view",
                           get_feature_view(n, p, FALSE), "feature_views", n, p)
       /\ last'.op = "get_on_demand_feature_view" =>
            /\ Reloaded
            /\ \A n \in Names, p \in Projects :
                ReadsStore("get_on_demand_feature_view",
                           get_on_demand_feature_view(n, p, FALSE),
                           "on_demand_feature_views", n, p)
      ]_vars

\* refresh() replaced an unexpired cached proto that held an entity the store
\* does not hold.
C10_Witness ==
    /\ last.op = "refresh"
    /\ last.outcome = "ok"
    /\ last.loads = 1
    /\ now = 0
    /\ cached_registry_proto = store
    /\ Len(store.entities) = 1

---------------------------------------------------------------------------
(* C11.  Bounded staleness of cached reads, under SpecCache. *)

\* C11: with a TTL > 0, a read with allow_cache=True never returns a cached
\* proto whose load time is older than now - TTL; the first such read after
\* the TTL has elapsed loads the store, caches what it loaded and stamps it
\* with the time of the load.
C11_BoundedStaleness ==
    [][( /\ cached_registry_proto_ttl > 0
         /\ nReads' = nReads + 1 )
            => /\ cached_registry_proto_created'
                    >= now - cached_registry_proto_ttl
               /\ \A n \in Names, p \in Projects :
                    Does("get_entity", get_entity(n, p, TRUE)) =>
                        get_entity(n, p, TRUE).result
                            = Lookup(cached_registry_proto'.entities, n, p)
               /\ ( /\ cached_registry_proto # None
                    /\ now > cached_registry_proto_created
                                + cached_registry_proto_ttl )
                    => /\ last'.loads = 1
                       /\ cached_registry_proto' = store
                       /\ cached_registry_proto_created' = now
      ]_vars

\* A second load: a read after the TTL of the first load had elapsed replaced
\* the cached proto by the one another process had persisted meanwhile.
C11_Witness ==
    /\ cached_registry_proto_ttl > 0
    /\ last.op = "get_entity"
    /\ last.loads = 1
    /\ nLoads = 2
    /\ firstLoad = 0
    /\ cached_registry_proto_created = now
    /\ now > firstLoad + cached_registry_proto_ttl

---------------------------------------------------------------------------
(* Threads in _get_registry_proto: several threads call a get on one        *)
(* Registry.  A call waits at `with self._refresh_lock`, enters when the    *)
(* lock is free, and inside it either returns the cached proto or loads the *)
(* store, which takes time: other threads call, wait, and the clock and the *)
(* store move on while a load is in progress.                               *)

\* The thread's call has not entered the `with` block yet.
Waiting(t) == threads[t].pc = "waiting"

\* The thread is in self._registry_store.get_registry_proto().
Loading(t) == threads[t].pc = "loading"

\* `if allow_cache and not expired`: the call returns the cached proto.
ReturnsCached(allow_cache) ==
    allow_cache /\ ~Expired

\* A thread calls get_*(…, allow_cache) and reaches the lock; it is behind
\* the thread that holds the lock, if one does.
CallGet(t) ==
    /\ threads[t].pc = "idle"
    /\ \E allow_cache \in BOOLEAN :
        threads' = [threads EXCEPT ![t] =
                        [@ EXCEPT !.pc = "waiting", !.allow_cache = allow_cache,
                                  !.behind = refresh_lock]]
    /\ last' = [op |-> "call", outcome |-> "ok", loads |-> 0, persists |-> 0]
    /\ UNCHANGED <<cached_registry_proto, cached_registry_proto_created,
                   cached_registry_proto_ttl, store, now, refresh_lock,
                   reloaded_by>>

\* Enter without the lock: the `with self._refresh_lock` left out.
Enter_NoLock(t) ==
    /\ Waiting(t)
    /\ IF ReturnsCached(threads[t].allow_cache)
       THEN /\ threads' = [threads EXCEPT ![t] =
                            [@ EXCEPT !.pc = "done", !.got = cached_registry_proto]]
            /\ UNCHANGED refresh_lock
       ELSE /\ threads' = [u \in ThreadIds |->
                            IF u = t
                            THEN [threads[u] EXCEPT !.pc = "loading",
                                                    !.loads = @ + 1]
                            ELSE IF Waiting(u)
                                 THEN [threads[u] EXCEPT !.behind = t]
                                 ELSE threads[u]]
            /\ refresh_lock' = t
    /\ last' = [op |-> "enter", outcome |-> "ok", loads |-> threads'[t].loads,
                persists |-> 0]
    /\ UNCHANGED <<cached_registry_proto, cached_registry_proto_created,
                   cached_registry_proto_ttl, store, now, reloaded_by>>

\* The thread acquires the lock and evaluates `expired`: it returns the
\* cached proto and releases the lock, or starts a load of the store with the
\* lock held; the threads that wait are then behind it.
Enter(t) ==
    /\ Waiting(t)
    /\ refresh_lock = 0
    /\ IF ReturnsCached(threads[t].allow_cache)
       THEN /\ threads' = [threads EXCEPT ![t] =
                            [@ EXCEPT !.pc = "done", !.got = cached_registry_proto]]
            /\ UNCHANGED refresh_lock
       ELSE /\ threads' = [u \in ThreadIds |->
                            IF u = t
                            THEN [threads[u] EXCEPT !.pc = "loading",
                                                    !.loads = @ + 1]
                            ELSE IF Waiting(u)
                                 THEN [threads[u] EXCEPT !.behind = t]
                                 ELSE threads[u]]
            /\ refresh_lock' = t
    /\ last' = [op |-> "enter", outcome |-> "ok", loads |-> threads'[t].loads,
                persists |-> 0]
    /\ UNCHANGED <<cached_registry_proto, cached_registry_proto_created,
                   cached_registry_proto_ttl, store, now, reloaded_by>>

\* The load returns: the proto is cached and stamped, the call returns it and
\* the `with` block releases the lock.
Load(t) ==
    /\ Loading(t)
    /\ cached_registry_proto' = store
    /\ cached_registry_proto_created' = now
    /\ threads' = [threads EXCEPT ![t] = [@ EXCEPT !.pc = "done", !.got = store]]
    /\ refresh_lock' = IF refresh_lock = t THEN 0 ELSE refresh_lock
    /\ reloaded_by' = t
    /\ last' = [op |-> "load", outcome |-> "ok", loads |-> 1, persists |-> 0]
    /\ UNCHANGED <<cached_registry_proto_ttl, store, now>>

InitThreads ==
    /\ cached_registry_proto = None
    /\ cached_registry_proto_created = NoTime
    /\ cached_registry_proto_ttl \in Ttls
    /\ store \in StoreSnapshots
    /\ now = 0
    /\ last = [op |-> "init", outcome |-> "ok", loads |-> 0, persists |-> 0]
    /\ nReads = 0
    /\ nLoads = 0
    /\ firstLoad = NoTime
    /\ NoThreads
    /\ NoDiff
    /\ NoClone

NextThreads ==
    /\ \/ \E t \in ThreadIds : CallGet(t)
       \/ \E t \in ThreadIds : Enter(t)
       \/ \E t \in ThreadIds : Load(t)
       \/ ExternalPersist /\ UNCHANGED ThreadVars
       \/ Tick(1) /\ UNCHANGED ThreadVars
    /\ UNCHANGED Observers
    /\ UNCHANGED DiffVars
    /\ UNCHANGED CloneVars

SpecThreads == InitThreads /\ [][NextThreads]_vars

---------------------------------------------------------------------------
(* C12.  One reload at a time, under SpecThreads. *)

\* The threads whose load of the store is in progress.
LoadsInProgress == {t \in ThreadIds : Loading(t)}

\* C12, as claimed: at most one load of the store is in progress at any time,
\* and a caller that waited for the lock behind a reload returns the proto
\* that reload produced without a load of its own.
C12_SingleReloadAlways ==
    /\ Cardinality(LoadsInProgress) <= 1
    /\ \A t \in ThreadIds :
        threads[t].pc = "done" /\ threads[t].behind # 0 =>
            /\ threads[t].loads = 0
            /\ threads[t].got = threads[threads[t].behind].got

\* C12, amended: at most one load of the store is in progress at any time.  A
\* caller that waited behind a reload and called with allow_cache=True
\* returns, once it has the lock and the cached proto has not expired, the
\* cached proto, which the latest completed reload produced, without a load
\* of its own; a caller that waited and called with allow_cache=False loads
\* the store once itself when it has the lock.
C12_SingleReload ==
    [][/\ Cardinality(LoadsInProgress') <= 1
       /\ \A t \in ThreadIds :
            (Waiting(t) /\ ~Waiting(t)' /\ threads[t].behind # 0) =>
                /\ refresh_lock = 0
                /\ reloaded_by # 0
                /\ ReturnsCached(threads[t].allow_cache) =>
                    /\ threads'[t].pc = "done"
                    /\ threads'[t].loads = 0
                    /\ threads'[t].got = cached_registry_proto
                    /\ threads'[t].got = threads[reloaded_by].got
                /\ ~threads[t].allow_cache =>
                    /\ Loading(t)'
                    /\ threads'[t].loads = 1
                    /\ refresh_lock' = t
      ]_vars

\* A thread that waited behind a reload returned that reload's proto with no
\* load of its own, after the store had changed.
C12_Witness ==
    \E t \in ThreadIds :
        /\ threads[t].pc = "done"
        /\ threads[t].allow_cache
        /\ threads[t].behind # 0
        /\ threads[t].loads = 0
        /\ threads[threads[t].behind].loads = 1
        /\ threads[t].got = threads[threads[t].behind].got
        /\ threads[t].got # store

---------------------------------------------------------------------------
(* C13.  A store that holds nothing. *)

\* RegistryProto() with the schema version "1": the empty registry.
Empty == [RegistryProto EXCEPT !.registry_schema_version = "1"]

\* The load a mutating call makes now fails: its refresh guard does not find
\* an unexpired cached proto, and the store holds nothing.
GuardLoadFails == Expired /\ store = None

\* The step's call proceeded on a synthesized proto, stamped now, and left
\* the cached proto `reg`.
Bootstrapped(outcome, reg) ==
    /\ last'.outcome = outcome
    /\ last'.loads = 1
    /\ cached_registry_proto' = reg
    /\ cached_registry_proto_created' = now

\* The step's read raised what the load raised and left the cache alone.
Propagated ==
    /\ last'.outcome = "FileNotFoundError"
    /\ last'.loads = 1
    /\ cached_registry_proto' = cached_registry_proto
    /\ cached_registry_proto_created' = cached_registry_proto_created
    /\ store' = store

MutatingOps ==
    {"apply_entity", "apply_feature_service", "apply_feature_view",
     "apply_materialization", "delete_entity", "delete_feature_service",
     "delete_feature_view", "update_infra"}

ReadOps ==
    {"get_entity", "get_feature_service", "get_feature_view",
     "get_on_demand_feature_view", "get_infra", "list_entities",
     "list_feature_services", "list_feature_views",
     "list_on_demand_feature_views", "list_request_feature_views", "to_dict",
     "refresh"}

\* C13: when the load of the store fails with FileNotFoundError, every
\* mutating operation proceeds on a synthesized empty registry of schema
\* version "1" (an apply leaves exactly the object applied, update_infra the
\* infra object, a delete or apply_materialization finds nothing and raises
\* its NotFound exception), and every read raises FileNotFoundError and
\* leaves the cached proto and its time stamp as they were.
C13_Bootstrap ==
    [][/\ (last'.op \in ReadOps /\ store = None) => Propagated
       /\ (last'.op \in MutatingOps /\ GuardLoadFails) =>
            /\ cached_registry_proto'.registry_schema_version = "1"
            /\ last'.op = "apply_entity" =>
                \A o \in Objects, c \in BOOLEAN :
                    AppliedEntity(o, c) =>
                        Bootstrapped("ok", [Empty EXCEPT !.entities =
                                                <<Proto(o[1], o[2], o[3])>>])
            /\ last'.op = "apply_feature_service" =>
                \A o \in Objects, c \in BOOLEAN :
                    AppliedFeatureService(o, c) =>
                        Bootstrapped("ok", [Empty EXCEPT !.feature_services =
                                                <<Proto(o[1], o[2], o[3])>>])
            /\ last'.op = "apply_feature_view" =>
                \A v \in Variants, c \in BOOLEAN : \A o \in FeatureViewInputs(v) :
                    AppliedFeatureView(v, o, c) =>
                        Bootstrapped("ok", [Empty EXCEPT ![CollectionOf(v)] =
                                    <<IncomingProto(v, o[1], o[2], o[3])>>])
            /\ last'.op = "update_infra" =>
                \A i \in Payloads, p \in Projects, c \in BOOLEAN :
                    Does("update_infra", update_infra(i, p, c)) =>
                        Bootstrapped("ok", [Empty EXCEPT !.infra = i])
            /\ last'.op = "delete_entity" =>
                Bootstrapped("EntityNotFoundException", Empty)
            /\ last'.op = "delete_feature_service" =>
                Bootstrapped("FeatureServiceNotFoundException", Empty)
            /\ last'.op \in {"delete_feature_view", "apply_materialization"} =>
                Bootstrapped("FeatureViewNotFoundException", Empty)
      ]_vars

\* update_infra went on without a registry in the store, after the cached
\* proto had expired, and did not persist.
C13_Witness ==
    /\ last.op = "update_infra"
    /\ last.loads = 1
    /\ last.persists = 0
    /\ store = None
    /\ now > 0
    /\ cached_registry_proto_created = now
    /\ cached_registry_proto.infra # ""

---------------------------------------------------------------------------
(* The materialization tracker on its own: one caller registers feature     *)
(* views and records materializations of them, with two intervals that can  *)
(* be recorded in either order and more than once.                          *)

MaterializationIntervals == {"i1", "i2"}

\* The feature views that are registered, as (name, project, payload).
TrackedViews == {<<"a", "p1", "v1">>, <<"b", "p1", "v1">>}

RegisterView ==
    \E o \in TrackedViews, c \in BOOLEAN :
        LET call == apply_feature_view("FeatureView", o[1], o[2], o[3], c)
        IN  Does("apply_feature_view", call)

Materialize ==
    \E n \in Names, p \in Projects, i \in MaterializationIntervals, c \in BOOLEAN :
        LET call == apply_materialization(n, p, i, c)
        IN  /\ \A k \in 1..Len(call.proto.feature_views) :
                   Len(call.proto.feature_views[k].mi) <= MaxMaterializations
            /\ Does("apply_materialization", call)

NextMaterialization ==
    /\ \/ RegisterView
       \/ Materialize
       \/ Commit
       \/ Refresh
       \/ Elapse
    /\ UNCHANGED Observers
    /\ UNCHANGED ThreadVars
    /\ UNCHANGED DiffVars
    /\ UNCHANGED CloneVars

SpecMaterialization == Init /\ [][NextMaterialization]_vars

---------------------------------------------------------------------------
(* C14.  Materializations are recorded in call order. *)

AppliedMaterialization(n, p, i, c) ==
    Does("apply_materialization", apply_materialization(n, p, i, c))

\* The materialization intervals `reg` records for the feature view
\* (n, p), which it holds.
IntervalsOf(reg, n, p) ==
    reg.feature_views[FirstIndex(reg.feature_views, n, p)].mi

\* The feature views of `reg` other than (n, p), in their order.
OtherViews(reg, n, p) ==
    SelectSeq(reg.feature_views, LAMBDA e : ~Matches(e, n, p))

\* C14: apply_materialization of an interval i for a feature view that
\* exists leaves the view's interval list equal to the list it had followed
\* by i, so that k successive calls with i1..ik leave the previous list
\* followed by i1..ik in call order: nothing is merged, sorted or dropped
\* as a duplicate, and the other views keep their lists.
C14_MaterializationOrder ==
    [][\A n \in Names, p \in Projects, i \in MaterializationIntervals,
          c \in BOOLEAN :
        ( /\ last'.op = "apply_materialization"
          /\ FirstIndex(Work.feature_views, n, p) # 0
          /\ AppliedMaterialization(n, p, i, c) )
            => /\ last'.outcome = "ok"
               /\ Unique(cached_registry_proto'.feature_views)
               /\ FirstIndex(cached_registry_proto'.feature_views, n, p) # 0
               /\ IntervalsOf(cached_registry_proto', n, p)
                      = Append(IntervalsOf(Work, n, p), i)
               /\ OtherViews(cached_registry_proto', n, p)
                      = OtherViews(Work, n, p)
               /\ (~Expired => IntervalsOf(Work, n, p)
                                   = IntervalsOf(cached_registry_proto, n, p))
               /\ (c => store' = cached_registry_proto')
      ]_vars

\* Two materializations were recorded for a view with the later interval
\* first, and two with the same interval twice.
C14_Witness ==
    /\ last.op = "apply_materialization"
    /\ last.outcome = "ok"
    /\ cached_registry_proto # None
    /\ FirstIndex(cached_registry_proto.feature_views, "a", "p1") # 0
    /\ FirstIndex(cached_registry_proto.feature_views, "b", "p1") # 0
    /\ IntervalsOf(cached_registry_proto, "a", "p1") = <<"i2", "i1">>
    /\ IntervalsOf(cached_registry_proto, "b", "p1") = <<"i1", "i1">>

---------------------------------------------------------------------------
(* C15.  Materialization of a feature view that is not there. *)

\* C15: apply_materialization for a (name, project) that has no entry in
\* feature_views raises FeatureViewNotFoundException, never calls persist,
\* and leaves every collection of the cached proto unchanged.
C15_MaterializationMissing ==
    [][\A n \in Names, p \in Projects, i \in Intervals, c \in BOOLEAN :
        ( /\ last'.op = "apply_materialization"
          /\ FirstIndex(Work.feature_views, n, p) = 0
          /\ AppliedMaterialization(n, p, i, c) )
            => \A collection \in Collections :
                   RaisedLeaving("FeatureViewNotFoundException", collection)
      ]_vars

\* apply_materialization raised while the cached proto holds a feature view
\* of another project and an on-demand feature view of another name.
C15_Witness ==
    /\ last.op = "apply_materialization"
    /\ last.outcome = "FeatureViewNotFoundException"
    /\ last.persists = 0
    /\ cached_registry_proto # None
    /\ Len(cached_registry_proto.feature_views) = 1
    /\ cached_registry_proto.feature_views[1].project = "p2"
    /\ Len(cached_registry_proto.on_demand_feature_views) = 1
    /\ cached_registry_proto.on_demand_feature_views[1].name = "b"

---------------------------------------------------------------------------
(* C16.  Recorded materializations are only ever added to. *)

IsPrefix(s, t) ==
    /\ Len(s) <= Len(t)
    /\ SubSeq(t, 1, Len(s)) = s

\* reg holds a feature view (n, p).
HoldsView(reg, n, p) ==
    /\ reg # None
    /\ FirstIndex(reg.feature_views, n, p) # 0

\* C16: across any registry operation during which a feature view
\* (name, project) stays in the catalog, the interval list recorded for it
\* before is a prefix of the list recorded for it after: no operation
\* removes, reorders or merges recorded intervals.
C16_AppendOnly ==
    [][\A n \in Names, p \in Projects :
        ( /\ HoldsView(cached_registry_proto, n, p)
          /\ HoldsView(cached_registry_proto', n, p) )
            => IsPrefix(IntervalsOf(cached_registry_proto, n, p),
                        IntervalsOf(cached_registry_proto', n, p))
      ]_vars

---------------------------------------------------------------------------
(* Registry.diff_between, a static method: the change set that leads from   *)
(* one registry proto to another.                                           *)

\* The attributes diff_between goes through, in its order.
ObjectTypes ==
    <<"entities", "feature_views", "feature_tables", "on_demand_feature_views",
      "request_feature_views", "feature_services">>

\* attribute_to_object_type_str
ObjectTypeStr(object_type) ==
    CASE object_type = "entities" -> "entity"
      [] object_type = "feature_views" -> "feature view"
      [] object_type = "feature_tables" -> "feature table"
      [] object_type = "on_demand_feature_views" -> "on demand feature view"
      [] object_type = "request_feature_views" -> "request feature view"
      [] object_type = "feature_services" -> "feature service"

\* getattr(registry, object_type); no call of the Registry writes a feature
\* table.
Attr(reg, object_type) ==
    IF object_type = "feature_tables" THEN <<>> ELSE reg[object_type]

\* The absent side of a created or deleted object.
NoFco == [name |-> "", project |-> "", spec |-> ""]

FcoDiff(name, fco_type, current_fco, new_fco, fco_property_diffs, transition_type) ==
    [name |-> name, fco_type |-> fco_type, current_fco |-> current_fco,
     new_fco |-> new_fco, fco_property_diffs |-> fco_property_diffs,
     transition_type |-> transition_type]

ProjectKey(project) ==
    CASE project = "p1" -> 1 [] project = "p2" -> 2

PayloadKey(spec) ==
    CASE spec = "v1" -> 1 [] spec = "v2" -> 2

\* A total order of the protos: by name, then project, then payload.
ProtoKey(e) ==
    NameKey(e.name) * 100 + ProjectKey(e.project) * 10 + PayloadKey(e.spec)

\* seq in the order of ProtoKey, whatever order it comes in.
RECURSIVE Canonical(_)
Canonical(seq) ==
    IF seq = <<>>
    THEN <<>>
    ELSE LET rest == Canonical(SubSeq(seq, 1, Len(seq) - 1))
             x == seq[Len(seq)]
             k == Cardinality({i \in 1..Len(rest) :
                                ProtoKey(rest[i]) <= ProtoKey(x)})
         IN  SubSeq(rest, 1, k) \o <<x>> \o SubSeq(rest, k + 1, Len(rest))

\* tag_proto_objects_for_keep_delete_add(): the objects are partitioned by
\* matching on name, each part in an order that does not depend on the order
\* of the inputs.
tag_proto_objects_for_keep_delete_add(existing_objs, desired_objs) ==
    [objects_to_keep |->
        Canonical(SelectSeq(desired_objs,
                            LAMBDA e : e.name \in NamesIn(existing_objs))),
     objects_to_delete |->
        Canonical(SelectSeq(existing_objs,
                            LAMBDA e : e.name \notin NamesIn(desired_objs))),
     objects_to_add |->
        Canonical(SelectSeq(desired_objs,
                            LAMBDA e : e.name \notin NamesIn(existing_objs)))]

\* The fields of a proto, besides its name, that two protos are compared on.
ComparedFields == <<"project", "spec">>

\* diff_between(current, new, object_type) of two protos of one name: the
\* FcoDiffs to add, none when no field differs, else one UPDATE that lists
\* each field that differs with its old and its new value.
diff_between(current, new, object_type) ==
    LET differing == SelectSeq(ComparedFields, LAMBDA f : current[f] # new[f])
        fco_property_diffs ==
            [i \in 1..Len(differing) |->
                [property_name |-> differing[i],
                 val_existing |-> current[differing[i]],
                 val_declared |-> new[differing[i]]]]
    IN  IF differing = <<>>
        THEN <<>>
        ELSE <<FcoDiff(new.name, object_type, current, new,
                       fco_property_diffs, "UPDATE")>>

RECURSIVE Flatten(_)
Flatten(seqs) ==
    IF seqs = <<>> THEN <<>> ELSE Head(seqs) \o Flatten(Tail(seqs))

\* The loop over objects_to_delete copied from the one over objects_to_add
\* with its transition type left as it was.
DiffOfType_DeleteAsCreate(current_reg, new_reg, object_type) ==
    LET current_objs == Attr(current_reg, object_type)
        tagged == tag_proto_objects_for_keep_delete_add(
                      current_objs, Attr(new_reg, object_type))
        type_str == ObjectTypeStr(object_type)
        added ==
            [i \in 1..Len(tagged.objects_to_add) |->
                FcoDiff(tagged.objects_to_add[i].name, type_str, NoFco,
                        tagged.objects_to_add[i], <<>>, "CREATE")]
        deleted ==
            [i \in 1..Len(tagged.objects_to_delete) |->
                FcoDiff(tagged.objects_to_delete[i].name, type_str,
                        tagged.objects_to_delete[i], NoFco, <<>>, "CREATE")]
        current_obj_proto(e) ==
            Head(SelectSeq(current_objs, LAMBDA _e : _e.name = e.name))
        kept ==
            Flatten([i \in 1..Len(tagged.objects_to_keep) |->
                diff_between(current_obj_proto(tagged.objects_to_keep[i]),
                             tagged.objects_to_keep[i], type_str)])
    IN  added \o deleted \o kept

\* One turn of diff_between's loop over the object types: the FcoDiffs it
\* adds for object_type.
DiffOfType(current_reg, new_reg, object_type) ==
    LET current_objs == Attr(current_reg, object_type)
        tagged == tag_proto_objects_for_keep_delete_add(
                      current_objs, Attr(new_reg, object_type))
        type_str == ObjectTypeStr(object_type)
        added ==
            [i \in 1..Len(tagged.objects_to_add) |->
                FcoDiff(tagged.objects_to_add[i].name, type_str, NoFco,
                        tagged.objects_to_add[i], <<>>, "CREATE")]
        deleted ==
            [i \in 1..Len(tagged.objects_to_delete) |->
                FcoDiff(tagged.objects_to_delete[i].name, type_str,
                        tagged.objects_to_delete[i], NoFco, <<>>, "DELETE")]
        \* [_e for _e in current if _e.spec.name == e.spec.name][0]
        current_obj_proto(e) ==
            Head(SelectSeq(current_objs, LAMBDA _e : _e.name = e.name))
        kept ==
            Flatten([i \in 1..Len(tagged.objects_to_keep) |->
                diff_between(current_obj_proto(tagged.objects_to_keep[i]),
                             tagged.objects_to_keep[i], type_str)])
    IN  added \o deleted \o kept

\* Registry.diff_between(current_registry, new_registry): the fco_diffs of
\* the RegistryDiff it returns.
Registry_diff_between(current_reg, new_reg) ==
    Flatten([i \in 1..Len(ObjectTypes) |->
                DiffOfType(current_reg, new_reg, ObjectTypes[i])])

---------------------------------------------------------------------------
(* SpecDiff: diff_between is called with a pair of registry protos that     *)
(* calls of the Registry can build.                                         *)

\* The sequences of at most n of the objects, of distinct (name, project).
ProtoSeqs(n) ==
    {seq \in UNION {[1..k -> {Proto(o[1], o[2], o[3]) : o \in Objects}] : k \in 0..n} :
        Unique(seq)}

\* Registry protos with entities and at most one feature service.
DiffSnapshots ==
    {[RegistryProto EXCEPT !.registry_schema_version = REGISTRY_SCHEMA_VERSION,
                           !.entities = es, !.feature_services = fs] :
        es \in ProtoSeqs(MaxEntries), fs \in ProtoSeqs(1)}

InitDiff ==
    /\ cached_registry_proto = None
    /\ cached_registry_proto_created = NoTime
    /\ cached_registry_proto_ttl = InitTtl(CacheTtl)
    /\ store = None
    /\ now = 0
    /\ last = [op |-> "init", outcome |-> "ok", loads |-> 0, persists |-> 0]
    /\ nReads = 0
    /\ nLoads = 0
    /\ firstLoad = NoTime
    /\ NoThreads
    /\ current_registry \in DiffSnapshots
    /\ new_registry \in DiffSnapshots
    /\ diff = NoRegistryDiff
    /\ NoClone

DiffBetween ==
    /\ ~diff.returned
    /\ diff' = [fco_diffs |-> Registry_diff_between(current_registry, new_registry),
                returned |-> TRUE]
    /\ UNCHANGED <<current_registry, new_registry>>

NextDiff ==
    /\ DiffBetween
    /\ UNCHANGED <<cached_registry_proto, cached_registry_proto_created,
                   cached_registry_proto_ttl, store, now, last>>
    /\ UNCHANGED Observers
    /\ UNCHANGED ThreadVars
    /\ UNCHANGED CloneVars

SpecDiff == InitDiff /\ [][NextDiff]_vars

---------------------------------------------------------------------------
(* C17.  The diff of a registry proto with itself. *)

\* The entries of seq that are equal to e.
Occurrences(seq, e) ==
    {i \in 1..Len(seq) : seq[i] = e}

\* The FcoDiffs of the returned change set that are about an object of
\* object_type called name.
RecordsOf(object_type, name) ==
    SelectSeq(diff.fco_diffs,
              LAMBDA d : d.fco_type = ObjectTypeStr(object_type) /\ d.name = name)

\* C17: diff_between(S, S) is empty for every registry proto S; more
\* generally, an object that both protos hold with no differing field
\* contributes no FcoDiff.
C17_DiffOfIdentical ==
    diff.returned
        => /\ (current_registry = new_registry => diff.fco_diffs = <<>>)
           /\ \A i \in 1..Len(ObjectTypes) :
                \A k \in 1..Len(Attr(new_registry, ObjectTypes[i])) :
                    LET e == Attr(new_registry, ObjectTypes[i])[k]
                    IN  Occurrences(Attr(current_registry, ObjectTypes[i]), e) # {}
                            => \A j \in 1..Len(diff.fco_diffs) :
                                    ~ ( /\ diff.fco_diffs[j].fco_type
                                              = ObjectTypeStr(ObjectTypes[i])
                                        /\ diff.fco_diffs[j].new_fco = e )

---------------------------------------------------------------------------
(* C18.  What the diff creates and deletes. *)

\* The FcoDiffs about (object_type, name) of the given transition.
Transitions(object_type, name, transition_type) ==
    Len(SelectSeq(RecordsOf(object_type, name),
                  LAMBDA d : d.transition_type = transition_type))

\* C18: for each object type, diff_between emits exactly one CREATE for
\* every name that only new_registry has, exactly one DELETE for every name
\* that only current_registry has, and neither for a name that both have.
C18_CreateDeletePartition ==
    diff.returned
        => \A i \in 1..Len(ObjectTypes) : \A n \in Names :
              LET in_current == n \in NamesIn(Attr(current_registry, ObjectTypes[i]))
                  in_new == n \in NamesIn(Attr(new_registry, ObjectTypes[i]))
              IN  /\ Transitions(ObjectTypes[i], n, "CREATE")
                        = IF in_new /\ ~in_current THEN 1 ELSE 0
                  /\ Transitions(ObjectTypes[i], n, "DELETE")
                        = IF in_current /\ ~in_new THEN 1 ELSE 0

\* The entries of seq called n.
Named(seq, n) ==
    SelectSeq(seq, LAMBDA e : e.name = n)

\* The FcoDiffs of the change set about (object_type, n) of the given
\* transition, in their order.
TransitionsOf(object_type, n, transition_type) ==
    SelectSeq(RecordsOf(object_type, n),
              LAMBDA d : d.transition_type = transition_type)

\* C18, amended: for each object type, diff_between emits exactly one CREATE
\* for every object of new_registry whose name no object of
\* current_registry has (one per project that uses the name), exactly one
\* DELETE for every object of current_registry whose name no object of
\* new_registry has, and neither for a name that both have.
C18_CreateDeletePerObject ==
    diff.returned
        => \A i \in 1..Len(ObjectTypes) : \A n \in Names :
              LET current_objs == Named(Attr(current_registry, ObjectTypes[i]), n)
                  new_objs == Named(Attr(new_registry, ObjectTypes[i]), n)
                  created == TransitionsOf(ObjectTypes[i], n, "CREATE")
                  deleted == TransitionsOf(ObjectTypes[i], n, "DELETE")
              IN  /\ Len(created)
                        = IF current_objs = <<>> THEN Len(new_objs) ELSE 0
                  /\ Len(deleted)
                        = IF new_objs = <<>> THEN Len(current_objs) ELSE 0
                  /\ \A k \in 1..Len(new_objs) :
                        current_objs = <<>>
                            => Cardinality({j \in 1..Len(created) :
                                    created[j].new_fco = new_objs[k]}) = 1
                  /\ \A k \in 1..Len(current_objs) :
                        new_objs = <<>>
                            => Cardinality({j \in 1..Len(deleted) :
                                    deleted[j].current_fco = current_objs[k]}) = 1

\* A diff that creates the entities of one name in two projects, deletes an
\* entity, and is between feature services of one name.
C18_Witness ==
    /\ diff.returned
    /\ Transitions("entities", "a", "CREATE") = 2
    /\ Transitions("entities", "b", "DELETE") = 1
    /\ NamesIn(current_registry.feature_services) = {"a"}
    /\ NamesIn(new_registry.feature_services) = {"a"}
    /\ current_registry.feature_services # new_registry.feature_services

---------------------------------------------------------------------------
(* C19.  The diff and the order of the entries. *)

\* The orderings of seq.
Orderings(seq) ==
    {[i \in 1..Len(seq) |-> seq[f[i]]] : f \in Permutations(1..Len(seq))}

\* The registry protos that hold the entries of reg, each collection in any
\* order.
Reordered(reg) ==
    {[reg EXCEPT !.entities = es, !.feature_services = fs] :
        es \in Orderings(reg.entities), fs \in Orderings(reg.feature_services)}

\* C19: for any registry protos A and B and any reordering A', B' of the
\* entries inside their collections, diff_between(A', B') is the same
\* sequence of FcoDiffs as diff_between(A, B).
C19_OrderIndependent ==
    diff.returned
        => \A a \in Reordered(current_registry), b \in Reordered(new_registry) :
              Registry_diff_between(a, b) = diff.fco_diffs

---------------------------------------------------------------------------
(* C20.  The dict of a project. *)

\* The collection each key of the dict is built from.
DictKeys ==
    [entities |-> "entities", featureViews |-> "feature_views",
     featureServices |-> "feature_services",
     onDemandFeatureViews |-> "on_demand_feature_views",
     requestFeatureViews |-> "request_feature_views"]

\* s holds exactly the entries of seq that are of the project, each once, in
\* the order of their names.
ProjectSortedByName(s, seq, project) ==
    LET of_project == {j \in 1..Len(seq) : seq[j].project = project}
    IN  /\ Len(s) = Cardinality(of_project)
        /\ \A j \in of_project : \E i \in 1..Len(s) : s[i] = FromProto(seq[j])
        /\ \A i, k \in 1..Len(s) : i < k => NameKey(s[i].name) < NameKey(s[k].name)

\* The registry protos that hold the entries of reg, each of the five
\* collections in any order.
AppliedInAnyOrder(reg) ==
    {[reg EXCEPT !.entities = es, !.feature_views = fvs,
                 !.feature_services = fss, !.on_demand_feature_views = odfvs,
                 !.request_feature_views = rfvs] :
        es \in Orderings(reg.entities), fvs \in Orderings(reg.feature_views),
        fss \in Orderings(reg.feature_services),
        odfvs \in Orderings(reg.on_demand_feature_views),
        rfvs \in Orderings(reg.request_feature_views)}

\* C20: to_dict(project) returns, for each of the five kinds, exactly the
\* entries of the project that the registry holds, sorted by name (a kind
\* without entries has no key); the output is the same whatever order the
\* objects were applied in, and a second to_dict(project) made right after,
\* the registry unchanged, returns the same output.
C20_CanonicalProjection ==
    [][\A p \in Projects :
        ( /\ last'.op = "to_dict"
          /\ last'.outcome = "ok"
          /\ Does("to_dict", to_dict(p)) )
            => LET out == to_dict(p).result[1]
               IN  /\ \A k \in DOMAIN DictKeys :
                        IF k \in DOMAIN out
                        THEN /\ out[k] # <<>>
                             /\ ProjectSortedByName(out[k], store[DictKeys[k]], p)
                        ELSE ProjectSortedByName(<<>>, store[DictKeys[k]], p)
                   /\ DOMAIN out \subseteq DOMAIN DictKeys
                   /\ \A reg \in AppliedInAnyOrder(store) : ToDictOf(reg, p) = out
                   /\ store' = store
                   \* the second call: its lists load the same registry
                   \* and its dict is built from them
                   /\ list_entities(p, FALSE)'.outcome = "ok"
                   /\ ToDictOf(list_entities(p, FALSE)'.proto, p) = out
      ]_vars

\* to_dict was called on a registry that holds two entities of one project,
\* applied in the reverse order of their names.
C20_Witness ==
    /\ last.op = "to_dict"
    /\ last.outcome = "ok"
    /\ last.loads = 5
    /\ Len(store.entities) = 2
    /\ store.entities[1].name = "b"
    /\ store.entities[2].name = "a"
    /\ store.entities[1].project = store.entities[2].project

---------------------------------------------------------------------------
(* C21.  The lists. *)

\* The list operation of each collection.
ListOps ==
    [entities |-> "list_entities", feature_services |-> "list_feature_services",
     feature_views |-> "list_feature_views",
     on_demand_feature_views |-> "list_on_demand_feature_views",
     request_feature_views |-> "list_request_feature_views"]

\* s holds exactly the entries of seq that are of the project, in the order
\* they have in seq.
ProjectInOrder(s, seq, project) ==
    LET of_project == {j \in 1..Len(seq) : seq[j].project = project}
        nth(i) == CHOOSE j \in of_project :
                      Cardinality({k \in of_project : k <= j}) = i
    IN  /\ Len(s) = Cardinality(of_project)
        /\ \A i \in 1..Len(s) : s[i] = FromProto(seq[nth(i)])

\* C21: list(project) of a kind returns exactly the entries of the kind's
\* collection whose project is the argument, in collection order; entries of
\* another project are never in it.
C21_ListProjectScoped ==
    [][\A c \in Collections, p \in Projects :
        ( /\ last'.op = ListOps[c]
          /\ last'.outcome = "ok"
          /\ Does(ListOps[c], List(c, p, FALSE)) )
            => /\ ProjectInOrder(List(c, p, FALSE).result, store[c], p)
               /\ cached_registry_proto' = store
               /\ store' = store
      ]_vars

\* list_entities was called on a registry that holds an entity of each
\* project: each list has one entity, the other's is left out.
C21_Witness ==
    /\ last.op = "list_entities"
    /\ last.outcome = "ok"
    /\ Len(store.entities) = 2
    /\ store.entities[1].project # store.entities[2].project

---------------------------------------------------------------------------
(* SpecClone: a caller clones the registry once and then makes mutating     *)
(* calls on the registry and on the clone, turning from one to the other.   *)
(* The variables of the registry hold the fields of the registry that is    *)
(* acting, `other` the fields of the one that is not; `store` is the        *)
(* backend store of the registry that was cloned.                           *)

\* clone() that assigns the cached proto itself, not a deep copy of it.
clone_Shallow ==
    [cached_registry_proto |->
        IF cached_registry_proto # None THEN cached_registry_proto
        ELSE RegistryProto,
     cached_registry_proto_created |-> now,
     cached_registry_proto_ttl |-> 0,
     registry_store |-> "noop",
     same_proto |-> cached_registry_proto # None]

\* clone(): the fields of the registry it returns. Its cached proto is a new
\* object (same_proto tells whether the two registries refer to one proto
\* object), it never expires and it is bound to a NoopRegistryStore.
clone ==
    [cached_registry_proto |->
        IF cached_registry_proto # None THEN cached_registry_proto
        ELSE RegistryProto,
     cached_registry_proto_created |-> now,
     cached_registry_proto_ttl |-> 0,
     registry_store |-> "noop",
     same_proto |-> FALSE]

\* r2 = r.clone()
Clone ==
    /\ acting = "r"
    /\ other = NoOther
    /\ other' = clone
    /\ last' = [op |-> "clone", outcome |-> "ok", loads |-> 0, persists |-> 0]
    /\ UNCHANGED <<cached_registry_proto, cached_registry_proto_created,
                   cached_registry_proto_ttl, store, now, registry_store, acting>>

\* The caller turns to the other registry. A proto object that both
\* registries refer to is seen by the other one as the calls left it.
Switch ==
    /\ other # NoOther
    /\ acting' = IF acting = "r" THEN "r2" ELSE "r"
    /\ cached_registry_proto' =
            IF other.same_proto THEN cached_registry_proto
            ELSE other.cached_registry_proto
    /\ cached_registry_proto_created' = other.cached_registry_proto_created
    /\ cached_registry_proto_ttl' = other.cached_registry_proto_ttl
    /\ registry_store' = other.registry_store
    /\ other' = [cached_registry_proto |-> cached_registry_proto,
                 cached_registry_proto_created |-> cached_registry_proto_created,
                 cached_registry_proto_ttl |-> cached_registry_proto_ttl,
                 registry_store |-> registry_store,
                 same_proto |-> other.same_proto]
    /\ UNCHANGED <<store, now, last>>

\* The calls of one family of collections are explored while the registry
\* that is not acting holds no other family either.
OtherInFamily(f) ==
    /\ InFamily(f)
    /\ Families(other.cached_registry_proto) \subseteq {f}

\* A mutating call on the acting registry. A call that loads, or that starts
\* from a new RegistryProto(), assigns a new proto object to the registry.
MutatingCall ==
    /\ \/ (ApplyEntity \/ DeleteEntity) /\ OtherInFamily("entities")
       \/ (RegisterView \/ ApplyMaterialization \/ DeleteFeatureView)
            /\ OtherInFamily("feature_views")
       \/ Commit
    /\ other' = [other EXCEPT !.same_proto = @ /\ last'.loads = 0]
    /\ UNCHANGED <<registry_store, acting>>

NextClone ==
    /\ \/ Clone
       \/ Switch
       \/ MutatingCall
    /\ UNCHANGED Observers
    /\ UNCHANGED ThreadVars
    /\ UNCHANGED DiffVars

SpecClone == Init /\ [][NextClone]_vars

---------------------------------------------------------------------------
(* C22.  A clone and the registry it was made from. *)

\* The cached proto of registry `who` ("r" or its clone "r2").
CacheOf(who) ==
    IF who = acting \/ other.same_proto
    THEN cached_registry_proto
    ELSE other.cached_registry_proto

\* C22: after r2 = r.clone(), no mutating call on r2 (apply, delete,
\* apply_materialization, commit, whatever its commit flag) changes the
\* cached proto of r or what r's backend store holds, and no mutating call
\* on r changes the cached proto of r2.
C22_CloneIsolation ==
    [][other # NoOther
        => /\ (acting = "r2" => CacheOf("r")' = CacheOf("r"))
           /\ (acting = "r2" => store' = store)
           /\ (acting = "r" => CacheOf("r2")' = CacheOf("r2"))
      ]_vars

\* A call on the clone changed the clone's cached proto and called commit,
\* and the registry and its store hold what they held.
C22_Witness ==
    /\ acting = "r2"
    /\ last.op = "apply_entity"
    /\ last.persists = 1
    /\ cached_registry_proto # other.cached_registry_proto
    /\ other.cached_registry_proto # None
    /\ Len(other.cached_registry_proto.entities) = 1
    /\ store = other.cached_registry_proto

---------------------------------------------------------------------------
(* C23.  Mutations that are not persisted yet. *)

\* The cached proto holds mutations that the store does not.
Ahead ==
    /\ cached_registry_proto # None
    /\ cached_registry_proto # store

\* C23: mutations made in memory and not persisted yet stay in the cached
\* proto through every later call of the caller until commit() is called:
\* a read (forced loads and an elapsed TTL included) leaves the cached proto
\* as it is, a mutating call works on the cached proto as it is, and
\* commit() persists it.
C23_CacheStaysAhead ==
    [][Ahead
        => /\ (last'.op \in ReadOps
                    => cached_registry_proto' = cached_registry_proto)
           /\ (last'.op \in MutatingOps => Work = cached_registry_proto)
           /\ (last'.op = "commit" => store' = cached_registry_proto)
      ]_vars

---------------------------------------------------------------------------
(* C24.  delete_feature_view and its two collections. *)

\* seq without one entry of (name, project), the other entries in their order.
WithoutOne(seq, name, project) ==
    {SubSeq(seq, 1, k - 1) \o SubSeq(seq, k + 1, Len(seq)) :
        k \in {i \in 1..Len(seq) : Matches(seq[i], name, project)}}

\* The call left the cached proto as the working proto with `collection`
\* less one entry of (name, project), and persisted it iff the commit flag c is set.
RemovedFrom(collection, name, project, c) ==
    /\ last'.outcome = "ok"
    /\ \E seq \in WithoutOne(Work[collection], name, project) :
            cached_registry_proto' = [Work EXCEPT ![collection] = seq]
    /\ last'.persists = IF c THEN 1 ELSE 0
    /\ store' = IF c THEN cached_registry_proto' ELSE store

\* C24: delete_feature_view(name, project, commit) removes the entry of
\* (name, project) from feature_views when there is one, otherwise from
\* request_feature_views when there is one, and raises
\* FeatureViewNotFoundException only when neither holds one; a call that
\* succeeds removes exactly one entry, keeps every other entry in its order
\* and calls persist if and only if commit is true.
C24_DeleteFeatureViewBoth ==
    [][\A n \in Names, p \in Projects, c \in BOOLEAN :
        ( /\ last'.op = "delete_feature_view"
          /\ DeletedFeatureView(n, p, c) )
            => LET in_fv == FirstIndex(Work.feature_views, n, p) # 0
                   in_rfv == FirstIndex(Work.request_feature_views, n, p) # 0
               IN  /\ in_fv => RemovedFrom("feature_views", n, p, c)
                   /\ (~in_fv /\ in_rfv)
                        => RemovedFrom("request_feature_views", n, p, c)
                   /\ (last'.outcome = "FeatureViewNotFoundException")
                        <=> (~in_fv /\ ~in_rfv)
      ]_vars

\* A request feature view was deleted with commit=False: the cached proto has
\* lost it and the store holds it.
C24_Witness ==
    /\ last.op = "delete_feature_view"
    /\ last.outcome = "ok"
    /\ last.persists = 0
    /\ cached_registry_proto.request_feature_views = <<>>
    /\ store # None
    /\ Len(store.request_feature_views) = 1

---------------------------------------------------------------------------
(* SpecRace: the threads of one process call apply_entity(commit=True) on    *)
(* one registry, and other threads read it with allow_cache=False. A call of *)
(* apply_entity is the sequence of its statements: the refresh of            *)
(* _prepare_registry_for_changes (under the lock), the loop that deletes the *)
(* entry it replaces, the append and the commit; every statement reads       *)
(* self.cached_registry_proto anew, and the statements of the threads        *)
(* interleave.                                                               *)

\* A thread between two calls, or inside apply_entity(obj, commit=True) after
\* the statement that pc names. alone: no statement of another thread ran
\* during a call of this thread; serial: none of another apply_entity did.
NoCall ==
    [pc |-> "idle", obj |-> <<"a", "p1", "v1">>, alone |-> TRUE, serial |-> TRUE]

InsideApply(t) == threads[t].pc \in {"prepared", "scanned", "appended"}

\* The loop of apply_entity that leaves the entry it replaces in place.
DeleteExisting_Keep(reg, name, project) == reg

\* The loop of apply_entity on the cached proto.
DeleteExisting(reg, name, project) ==
    [reg EXCEPT !.entities = DeleteFirst(@, name, project)]

\* The flags of the threads after a statement of thread t (0: of a reader).
Overlapped(t, writer) ==
    [u \in ThreadIds |->
        IF u # t /\ InsideApply(u)
        THEN [threads[u] EXCEPT !.alone = FALSE,
                                !.serial = @ /\ ~writer]
        ELSE threads[u]]

\* The thread calls apply_entity: up to the return of
\* _prepare_registry_for_changes.
WriterPrepare(t) ==
    /\ threads[t].pc \in {"idle", "done"}
    /\ \E o \in Objects :
        LET prep == PrepareRegistryForChanges
            met == \E u \in ThreadIds : u # t /\ InsideApply(u)
        IN  /\ cached_registry_proto' = prep.proto
            /\ cached_registry_proto_created' = prep.created
            /\ threads' = [Overlapped(t, TRUE) EXCEPT ![t] =
                            [pc |-> "prepared", obj |-> o,
                             alone |-> threads[t].alone /\ ~met,
                             serial |-> threads[t].serial /\ ~met]]
            /\ last' = [op |-> "prepare", outcome |-> "ok", loads |-> prep.loads,
                        persists |-> 0]
    /\ UNCHANGED <<cached_registry_proto_ttl, store, now, refresh_lock, reloaded_by>>

WriterScan(t) ==
    /\ threads[t].pc = "prepared"
    /\ cached_registry_proto' =
            DeleteExisting(cached_registry_proto, threads[t].obj[1], threads[t].obj[2])
    /\ threads' = [Overlapped(t, TRUE) EXCEPT ![t] = [@ EXCEPT !.pc = "scanned"]]
    /\ last' = [op |-> "scan", outcome |-> "ok", loads |-> 0, persists |-> 0]
    /\ UNCHANGED <<cached_registry_proto_created, cached_registry_proto_ttl, store,
                   now, refresh_lock, reloaded_by>>

WriterAppend(t) ==
    /\ threads[t].pc = "scanned"
    /\ Len(cached_registry_proto.entities) < MaxEntries
    /\ cached_registry_proto' =
            [cached_registry_proto EXCEPT !.entities =
                Append(@, Proto(threads[t].obj[1], threads[t].obj[2],
                                threads[t].obj[3]))]
    /\ threads' = [Overlapped(t, TRUE) EXCEPT ![t] = [@ EXCEPT !.pc = "appended"]]
    /\ last' = [op |-> "append", outcome |-> "ok", loads |-> 0, persists |-> 0]
    /\ UNCHANGED <<cached_registry_proto_created, cached_registry_proto_ttl, store,
                   now, refresh_lock, reloaded_by>>

\* self.commit(), and apply_entity returns.
WriterCommit(t) ==
    /\ threads[t].pc = "appended"
    /\ store' = CommitStore(cached_registry_proto)
    /\ threads' = [Overlapped(t, TRUE) EXCEPT ![t] = [@ EXCEPT !.pc = "done"]]
    /\ last' = [op |-> "apply_entity", outcome |-> "ok", loads |-> 0,
                persists |-> 1]
    /\ UNCHANGED <<cached_registry_proto, cached_registry_proto_created,
                   cached_registry_proto_ttl, now, refresh_lock, reloaded_by>>

\* Another thread reads with allow_cache=False (a get_*, a list_* or
\* refresh()): _get_registry_proto loads the store and caches what it holds.
ForcedRead ==
    /\ LET got == GetRegistryProto(FALSE)
       IN  /\ cached_registry_proto' = got.proto
           /\ cached_registry_proto_created' = got.created
           /\ last' = [op |-> "refresh",
                       outcome |-> IF got.raised THEN "FileNotFoundError" ELSE "ok",
                       loads |-> got.loads, persists |-> 0]
    /\ threads' = Overlapped(0, FALSE)
    /\ UNCHANGED <<cached_registry_proto_ttl, store, now, refresh_lock, reloaded_by>>

InitRace ==
    /\ cached_registry_proto = None
    /\ cached_registry_proto_created = NoTime
    /\ cached_registry_proto_ttl = InitTtl(CacheTtl)
    /\ store = None
    /\ now = 0
    /\ last = [op |-> "init", outcome |-> "ok", loads |-> 0, persists |-> 0]
    /\ nReads = 0
    /\ nLoads = 0
    /\ firstLoad = NoTime
    /\ refresh_lock = 0
    /\ threads = [t \in ThreadIds |-> NoCall]
    /\ reloaded_by = 0
    /\ NoDiff
    /\ NoClone

NextRace ==
    /\ \/ \E t \in ThreadIds : WriterPrepare(t)
       \/ \E t \in ThreadIds : WriterScan(t)
       \/ \E t \in ThreadIds : WriterAppend(t)
       \/ \E t \in ThreadIds : WriterCommit(t)
       \/ ForcedRead
    /\ UNCHANGED Observers
    /\ UNCHANGED DiffVars
    /\ UNCHANGED CloneVars

SpecRace == InitRace /\ [][NextRace]_vars

---------------------------------------------------------------------------
(* C25.  Two calls of apply_entity that interleave. *)

\* No call of apply_entity has run while another thread was making one.
OneAfterTheOther == \A t \in ThreadIds : threads[t].alone

\* The object of the call that thread t has returned from is in the cached
\* proto under its (name, project).
HasObjectOf(t) ==
    /\ cached_registry_proto # None
    /\ FirstIndex(cached_registry_proto.entities,
                  threads[t].obj[1], threads[t].obj[2]) # 0

\* C25: apply_entity is not atomic with respect to another apply_entity on
\* the same registry. While the calls are made one after the other the cached
\* proto holds at most one entry for any (name, project) and, between the
\* calls, an entry for the object of every call that has returned; an
\* interleaving of two
\* calls reaches a cached proto with two entries of one (name, project) (the
\* witness).
C25_RaceWindow ==
    OneAfterTheOther
        => /\ cached_registry_proto # None => Unique(cached_registry_proto.entities)
           /\ (\A u \in ThreadIds : ~InsideApply(u))
                => \A t \in ThreadIds : threads[t].pc = "done" => HasObjectOf(t)

\* Two calls that interleaved have both returned and the cached proto holds
\* two entries of one (name, project).
C25_Witness ==
    /\ \A t \in 1..2 : threads[t].pc = "done" /\ ~threads[t].alone
    /\ ~Unique(cached_registry_proto.entities)

---------------------------------------------------------------------------
(* C26.  A writer and the threads that read. *)

\* No call of apply_entity has run while another thread was inside
\* apply_entity.
WritersSerialized == \A t \in ThreadIds : threads[t].serial

\* C26: while the calls of apply_entity are serialized with each other, every
\* apply_entity(commit=True) that returns without error has persisted its
\* object to the store, whatever reads with allow_cache=False other threads
\* make between its append and its commit.
C26_ReadsKeepWrites ==
    [][\A t \in ThreadIds :
        ( /\ threads[t].pc = "appended"
          /\ threads'[t].pc = "done"
          /\ WritersSerialized' )
            => Holds(store', "entities", threads[t].obj)
      ]_vars

---------------------------------------------------------------------------
(* C27.  apply_feature_view and the other projects. *)

\* The entries of seq that belong to `project`, in their order.
RECURSIVE EntriesOf(_, _)
EntriesOf(seq, project) ==
    IF seq = <<>> THEN <<>>
    ELSE IF Head(seq).project = project
         THEN <<Head(seq)>> \o EntriesOf(Tail(seq), project)
         ELSE EntriesOf(Tail(seq), project)

\* A registry that agrees with reg on every entry of `project` and holds no
\* entry of another project.
OfProject(reg, project) ==
    [reg EXCEPT !.entities = EntriesOf(@, project),
                !.feature_views = EntriesOf(@, project),
                !.on_demand_feature_views = EntriesOf(@, project),
                !.request_feature_views = EntriesOf(@, project),
                !.feature_services = EntriesOf(@, project)]

\* C27: whether apply_feature_view(fv, project) succeeds or raises
\* ConflictingFeatureViewNames depends on the entries of `project` alone: it
\* is what the conflict check gives on a registry that agrees on the entries
\* of `project` and holds nothing of the other projects.
C27_ProjectIsolation ==
    [][\A v \in Variants, c \in BOOLEAN : \A o \in FeatureViewInputs(v) :
        ( /\ last'.op = "apply_feature_view"
          /\ AppliedFeatureView(v, o, c) )
            => ( last'.outcome = "ConflictingFeatureViewNames"
                 <=> CheckConflictingFeatureViewNames(OfProject(Work, o[2]),
                                                      v, o[1]) )
      ]_vars

---------------------------------------------------------------------------
(* SpecLock: the threads of SpecThreads over a store that may hold nothing,  *)
(* so that a load can raise FileNotFoundError inside the `with` block. Each  *)
(* thread makes one call; a load in progress returns or raises, and a thread *)
(* that waits for a lock that stays free acquires it.                        *)

\* The load raises and the `with` block keeps the lock.
LoadRaises_KeepLock(t) ==
    /\ Loading(t)
    /\ store = None
    /\ threads' = [threads EXCEPT ![t] = [@ EXCEPT !.pc = "raised"]]
    /\ last' = [op |-> "load", outcome |-> "FileNotFoundError", loads |-> 1,
                persists |-> 0]
    /\ UNCHANGED <<cached_registry_proto, cached_registry_proto_created,
                   cached_registry_proto_ttl, store, now, refresh_lock, reloaded_by>>

\* The load raises FileNotFoundError: the cached proto and its stamp stay, and
\* the exception leaves the `with` block, which releases the lock.
LoadRaises(t) ==
    /\ Loading(t)
    /\ store = None
    /\ threads' = [threads EXCEPT ![t] = [@ EXCEPT !.pc = "raised"]]
    /\ refresh_lock' = IF refresh_lock = t THEN 0 ELSE refresh_lock
    /\ last' = [op |-> "load", outcome |-> "FileNotFoundError", loads |-> 1,
                persists |-> 0]
    /\ UNCHANGED <<cached_registry_proto, cached_registry_proto_created,
                   cached_registry_proto_ttl, store, now, reloaded_by>>

\* The load returns.
LoadReturns(t) == store # None /\ Load(t)

\* The call was the one of _prepare_registry_for_changes: it catches the
\* exception, outside the lock, and caches a new RegistryProto().
Synthesize(t) ==
    /\ threads[t].pc = "raised"
    /\ threads[t].allow_cache
    /\ cached_registry_proto' =
            [RegistryProto EXCEPT !.registry_schema_version = REGISTRY_SCHEMA_VERSION]
    /\ cached_registry_proto_created' = now
    /\ threads' = [threads EXCEPT ![t] =
                    [@ EXCEPT !.pc = "done", !.got = cached_registry_proto']]
    /\ last' = [op |-> "prepare", outcome |-> "ok", loads |-> 0, persists |-> 0]
    /\ UNCHANGED <<cached_registry_proto_ttl, store, now, refresh_lock, reloaded_by>>

InitLock ==
    /\ cached_registry_proto = None
    /\ cached_registry_proto_created = NoTime
    /\ cached_registry_proto_ttl \in Ttls
    /\ store \in StoreSnapshots \cup {None}
    /\ now = 0
    /\ last = [op |-> "init", outcome |-> "ok", loads |-> 0, persists |-> 0]
    /\ nReads = 0
    /\ nLoads = 0
    /\ firstLoad = NoTime
    /\ NoThreads
    /\ NoDiff
    /\ NoClone

NextLock ==
    /\ \/ \E t \in ThreadIds : CallGet(t)
       \/ \E t \in ThreadIds : Enter(t)
       \/ \E t \in ThreadIds : LoadReturns(t)
       \/ \E t \in ThreadIds : LoadRaises(t)
       \/ \E t \in ThreadIds : Synthesize(t)
       \/ ExternalPersist /\ UNCHANGED ThreadVars
       \/ Tick(1) /\ UNCHANGED ThreadVars
    /\ UNCHANGED Observers
    /\ UNCHANGED DiffVars
    /\ UNCHANGED CloneVars

\* A thread blocked on a lock that stays free gets it, and a load of the
\* store returns or raises.
FairLock ==
    \A t \in ThreadIds :
        /\ WF_vars(Enter(t) /\ UNCHANGED <<Observers, DiffVars, CloneVars>>)
        /\ WF_vars((LoadReturns(t) \/ LoadRaises(t))
                        /\ UNCHANGED <<Observers, DiffVars, CloneVars>>)

SpecLock == InitLock /\ [][NextLock]_vars /\ FairLock

---------------------------------------------------------------------------
(* C28.  The refresh lock. *)

\* The call of thread t has left _get_registry_proto.
Completed(t) == threads[t].pc \in {"done", "raised"}

\* C28: the refresh lock is held only by a thread that is inside
\* _get_registry_proto with a load in progress, so it is free after a load
\* that returned and after one that raised; a thread takes the lock only
\* when it is free and the thread is waiting for it, never while holding it;
\* and every thread that waits for the lock gets it and leaves
\* _get_registry_proto, by a return or an exception.
C28_LockReleased ==
    /\ [](refresh_lock # 0 => Loading(refresh_lock))
    /\ [][\A t \in ThreadIds :
            refresh_lock' = t => refresh_lock = t \/ (refresh_lock = 0 /\ Waiting(t))
         ]_vars
    /\ \A t \in ThreadIds : Waiting(t) ~> Completed(t)

\* A load raised, the lock is free, and the thread that waited behind that
\* load has had the lock and left too.
C28_Witness ==
    \E t, u \in ThreadIds :
        /\ t # u
        /\ threads[t].pc = "raised"
        /\ threads[u].behind = t
        /\ Completed(u)
        /\ refresh_lock = 0

---------------------------------------------------------------------------
(* SpecDelete: the delete calls on a registry whose store holds objects of   *)
(* every kind, on-demand feature views among them.                           *)

\* An on-demand feature view under every (name, project).
AllOnDemand ==
    <<Proto("a", "p1", "v1"), Proto("a", "p2", "v1"),
      Proto("b", "p1", "v1"), Proto("b", "p2", "v1")>>

\* What earlier applies have persisted: feature views of the three variants
\* under names that do not conflict, with or without an entity and a feature
\* service.
DeleteSnapshots ==
    {[RegistryProto EXCEPT !.registry_schema_version = REGISTRY_SCHEMA_VERSION,
                           !.entities = e,
                           !.feature_services = fs,
                           !.feature_views = views[1],
                           !.request_feature_views = views[2],
                           !.on_demand_feature_views = views[3]] :
        e \in {<<>>, <<Proto("a", "p1", "v1")>>},
        fs \in {<<>>, <<Proto("a", "p1", "v1")>>},
        views \in {<<<<FeatureViewProto("a", "p1", "v1", <<>>)>>, <<>>,
                     <<Proto("b", "p1", "v1")>>>>,
                   <<<<>>, <<Proto("a", "p2", "v1")>>, <<Proto("b", "p1", "v1")>>>>,
                   <<<<>>, <<>>, AllOnDemand>>}}

InitDelete ==
    /\ cached_registry_proto = None
    /\ cached_registry_proto_created = NoTime
    /\ cached_registry_proto_ttl = InitTtl(CacheTtl)
    /\ store \in DeleteSnapshots
    /\ now = 0
    /\ last = [op |-> "init", outcome |-> "ok", loads |-> 0, persists |-> 0]
    /\ nReads = 0
    /\ nLoads = 0
    /\ firstLoad = NoTime
    /\ NoThreads
    /\ NoDiff
    /\ NoClone

DeleteAnyEntity ==
    \E n \in Names, p \in Projects, c \in BOOLEAN :
        Does("delete_entity", delete_entity(n, p, c))

DeleteAnyFeatureView ==
    \E n \in Names, p \in Projects, c \in BOOLEAN :
        Does("delete_feature_view", delete_feature_view(n, p, c))

DeleteAnyFeatureService ==
    \E n \in Names, p \in Projects, c \in BOOLEAN :
        Does("delete_feature_service", delete_feature_service(n, p, c))

NextDelete ==
    /\ \/ DeleteAnyEntity
       \/ DeleteAnyFeatureView
       \/ DeleteAnyFeatureService
       \/ Commit
       \/ Refresh
       \/ Elapse
    /\ UNCHANGED Observers
    /\ UNCHANGED ThreadVars
    /\ UNCHANGED DiffVars
    /\ UNCHANGED CloneVars

SpecDelete == InitDelete /\ [][NextDelete]_vars

---------------------------------------------------------------------------
(* C29.  On-demand feature views and the delete calls. *)

DeleteOps == {"delete_entity", "delete_feature_view", "delete_feature_service"}

\* C29: delete_feature_view(name, project) for a pair that only
\* on_demand_feature_views holds raises FeatureViewNotFoundException, and
\* after a call of delete_feature_view, delete_entity or
\* delete_feature_service the on_demand_feature_views of the cached proto are
\* the ones of the proto the call's own refresh gave it.
C29_OnDemandOutsideDelete ==
    [][/\ last'.op \in DeleteOps
            => cached_registry_proto'.on_demand_feature_views
                    = Work.on_demand_feature_views
       /\ \A n \in Names, p \in Projects, c \in BOOLEAN :
            ( /\ last'.op = "delete_feature_view"
              /\ FirstIndex(Work.on_demand_feature_views, n, p) # 0
              /\ FirstIndex(Work.feature_views, n, p) = 0
              /\ FirstIndex(Work.request_feature_views, n, p) = 0
              /\ DeletedFeatureView(n, p, c) )
                => /\ last'.outcome = "FeatureViewNotFoundException"
                   /\ last'.persists = 0
                   /\ cached_registry_proto' = Work
      ]_vars

\* delete_feature_view raised on a registry whose only feature views are
\* on-demand feature views under every (name, project), and they all stay.
C29_Witness ==
    /\ last.op = "delete_feature_view"
    /\ last.outcome = "FeatureViewNotFoundException"
    /\ cached_registry_proto.on_demand_feature_views = AllOnDemand
    /\ cached_registry_proto.feature_views = <<>>
    /\ cached_registry_proto.request_feature_views = <<>>

---------------------------------------------------------------------------
(* SpecToDict: to_dict statement by statement. Each of its five list calls   *)
(* is a call of _get_registry_proto(allow_cache=False), a load of the store, *)
(* and between two of them another process may persist a registry.           *)

\* The keys of registry_dict and the collections their lists read, in the
\* order of the loops of to_dict.
ToDictSections ==
    <<[key |-> "entities", collection |-> "entities"],
      [key |-> "featureViews", collection |-> "feature_views"],
      [key |-> "featureServices", collection |-> "feature_services"],
      [key |-> "onDemandFeatureViews", collection |-> "on_demand_feature_views"],
      [key |-> "requestFeatureViews", collection |-> "request_feature_views"]>>

\* The registries that processes persist to the store.
ToDictSnapshots ==
    {[RegistryProto EXCEPT !.registry_schema_version = REGISTRY_SCHEMA_VERSION,
                           !.entities = <<Proto("a", "p1", v)>>,
                           !.feature_views =
                                <<FeatureViewProto("a", "p1", v, <<>>)>>,
                           !.feature_services = fs] :
        v \in Payloads, fs \in {<<>>, <<Proto("a", "p1", "v1")>>}}

\* A thread that has not called to_dict; in a call, lists counts the loops of
\* to_dict that are done and loaded holds the protos its lists were given.
NoToDict ==
    [pc |-> "idle", lists |-> 0, project |-> "p1", registry_dict |-> << >>,
     loaded |-> {}]

\* registry_dict after the loop over the list of `section` in proto reg.
AfterLoop(registry_dict, section, reg, project) ==
    LET listed == Sorted(InProject(reg[section.collection], project))
    IN  IF listed = <<>> THEN registry_dict
        ELSE [k \in DOMAIN registry_dict \cup {section.key} |->
                IF k = section.key THEN listed ELSE registry_dict[k]]

\* One caller: a call is made when no other call of to_dict is in progress.
ToDictCall(t) ==
    /\ threads[t].pc = "idle"
    /\ \A u \in ThreadIds : threads[u].pc # "listing"
    /\ \E p \in Projects :
        threads' = [threads EXCEPT ![t] =
                        [NoToDict EXCEPT !.pc = "listing", !.project = p]]
    /\ last' = [op |-> "call", outcome |-> "ok", loads |-> 0, persists |-> 0]
    /\ UNCHANGED <<cached_registry_proto, cached_registry_proto_created,
                   cached_registry_proto_ttl, store, now, refresh_lock, reloaded_by>>

\* The next list_*(project) of to_dict and the loop over what it returns.
ToDictList(t) ==
    /\ threads[t].pc = "listing"
    /\ LET got == GetRegistryProto(FALSE)
           section == ToDictSections[threads[t].lists + 1]
       IN  /\ ~got.raised
           /\ cached_registry_proto' = got.proto
           /\ cached_registry_proto_created' = got.created
           /\ threads' = [threads EXCEPT ![t] =
                [@ EXCEPT !.pc = IF threads[t].lists + 1 = Len(ToDictSections)
                                 THEN "returned" ELSE "listing",
                          !.lists = @ + 1,
                          !.registry_dict =
                                AfterLoop(@, section, got.proto, threads[t].project),
                          !.loaded = @ \cup {got.proto}]]
           /\ last' = [op |-> "to_dict", outcome |-> "ok", loads |-> 1,
                       persists |-> 0]
    /\ UNCHANGED <<cached_registry_proto_ttl, store, now, refresh_lock, reloaded_by>>

\* Another process persists a registry to the same store.
PersistSnapshot ==
    /\ \E st \in ToDictSnapshots : st # store /\ store' = st
    /\ last' = [op |-> "external_persist", outcome |-> "ok", loads |-> 0,
                persists |-> 0]
    /\ UNCHANGED <<cached_registry_proto, cached_registry_proto_created,
                   cached_registry_proto_ttl, now, ThreadVars>>

InitToDict ==
    /\ cached_registry_proto = None
    /\ cached_registry_proto_created = NoTime
    /\ cached_registry_proto_ttl = InitTtl(CacheTtl)
    /\ store \in ToDictSnapshots
    /\ now = 0
    /\ last = [op |-> "init", outcome |-> "ok", loads |-> 0, persists |-> 0]
    /\ nReads = 0
    /\ nLoads = 0
    /\ firstLoad = NoTime
    /\ refresh_lock = 0
    /\ threads = [t \in ThreadIds |-> NoToDict]
    /\ reloaded_by = 0
    /\ NoDiff
    /\ NoClone

NextToDict ==
    /\ \/ \E t \in ThreadIds : ToDictCall(t)
       \/ \E t \in ThreadIds : ToDictList(t)
       \/ PersistSnapshot
    /\ UNCHANGED Observers
    /\ UNCHANGED DiffVars
    /\ UNCHANGED CloneVars

SpecToDict == InitToDict /\ [][NextToDict]_vars

---------------------------------------------------------------------------
(* C30.  to_dict while the store changes. *)

\* C30: the five sections of the dict a call of to_dict(project) returns are
\* the sections of one registry that the store held during the call, also
\* when another process persists a registry while the call runs.
C30_OneSnapshot ==
    \A t \in ThreadIds :
        threads[t].pc = "returned"
            => \E reg \in threads[t].loaded :
                    threads[t].registry_dict = ToDictOf(reg, threads[t].project)

====
